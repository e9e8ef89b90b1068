------------------------- MODULE AuthSessionsProofs -------------------------
(* Theorems about AuthSessions, for any accounts, requests and bounds. *)
EXTENDS AuthSessions, SequenceTheorems, TLAPS

\* Revoking any rows keeps the rows, their order and all columns but st.
LEMMA RevokedRows ==
  ASSUME token \in Seq(Token), NEW S
  PROVE  /\ Revoked(S) \in Seq(Token)
         /\ Len(Revoked(S)) = Len(token)
         /\ DOMAIN Revoked(S) = DOMAIN token
         /\ \A t \in DOMAIN token :
              Revoked(S)[t] = IF t \in S THEN [token[t] EXCEPT !.st = "revoked"] ELSE token[t]
<1>1. token \in [1..Len(token) -> Token] /\ Len(token) \in Nat /\ DOMAIN token = 1..Len(token)
  BY LenProperties, Zenon
<1>2. Revoked(S) \in [1..Len(token) -> Token]
  <2> SUFFICES ASSUME NEW t \in 1..Len(token)
               PROVE  (IF t \in S THEN [token[t] EXCEPT !.st = "revoked"] ELSE token[t]) \in Token
    BY <1>1 DEF Revoked
  <2> QED BY <1>1 DEF Token
<1>3. Revoked(S) \in Seq(Token)
  BY <1>1, <1>2, SeqDef
<1>4. Len(Revoked(S)) = Len(token)
  BY <1>1, <1>2, <1>3, LenProperties
<1> QED BY <1>1, <1>2, <1>3, <1>4 DEF Revoked

\* The same of the one-time codes.
LEMMA UsedRows ==
  ASSUME code \in Seq(Code), NEW S
  PROVE  /\ Used(S) \in Seq(Code)
         /\ Len(Used(S)) = Len(code)
         /\ DOMAIN Used(S) = DOMAIN code
         /\ \A c \in DOMAIN code :
              Used(S)[c] = IF c \in S THEN [code[c] EXCEPT !.st = "used"] ELSE code[c]
<1>1. code \in [1..Len(code) -> Code] /\ Len(code) \in Nat /\ DOMAIN code = 1..Len(code)
  BY LenProperties, Zenon
<1>2. Used(S) \in [1..Len(code) -> Code]
  <2> SUFFICES ASSUME NEW c \in 1..Len(code)
               PROVE  (IF c \in S THEN [code[c] EXCEPT !.st = "used"] ELSE code[c]) \in Code
    BY <1>1 DEF Used
  <2> QED BY <1>1 DEF Code
<1>3. Used(S) \in Seq(Code)
  BY <1>1, <1>2, SeqDef
<1>4. Len(Used(S)) = Len(code)
  BY <1>1, <1>2, <1>3, LenProperties
<1> QED BY <1>1, <1>2, <1>3, <1>4 DEF Used

\* Issuing a row keeps the rows and puts the new one last.
LEMMA Appended ==
  ASSUME NEW T, NEW s \in Seq(T), NEW e \in T
  PROVE  /\ Append(s, e) \in Seq(T)
         /\ Len(Append(s, e)) = Len(s) + 1
         /\ DOMAIN Append(s, e) = DOMAIN s \cup {Len(s) + 1}
         /\ \A i \in DOMAIN s : Append(s, e)[i] = s[i] /\ i # Len(s) + 1 /\ i <= Len(s)
         /\ Append(s, e)[Len(s) + 1] = e
<1>1. Len(s) \in Nat /\ DOMAIN s = 1..Len(s)
  BY LenProperties
<1>2. /\ Append(s, e) \in Seq(T)
      /\ Len(Append(s, e)) = Len(s) + 1
      /\ \A i \in 1..Len(s) : Append(s, e)[i] = s[i]
      /\ Append(s, e)[Len(s) + 1] = e
  BY AppendProperties
<1>3. DOMAIN Append(s, e) = 1..(Len(s) + 1)
  BY <1>2, LenProperties
<1> QED BY <1>1, <1>2, <1>3

\* A row of the token table stays well typed when it expires.
LEMMA ExpiredRow ==
  ASSUME token \in Seq(Token), NEW t \in DOMAIN token, NEW st \in {"live", "expired", "revoked"}
  PROVE  /\ [token EXCEPT ![t].st = st] \in Seq(Token)
         /\ DOMAIN [token EXCEPT ![t].st = st] = DOMAIN token
<1>1. token \in [1..Len(token) -> Token] /\ Len(token) \in Nat /\ DOMAIN token = 1..Len(token)
  BY LenProperties, Zenon
<1>2. [token[t] EXCEPT !.st = st] \in Token
  BY <1>1 DEF Token
<1>3. [token EXCEPT ![t].st = st] \in [1..Len(token) -> Token]
  BY <1>1, <1>2
<1> QED BY <1>1, <1>3, SeqDef

LEMMA ChangedCode ==
  ASSUME code \in Seq(Code), NEW c \in DOMAIN code
  PROVE  /\ [code EXCEPT ![c].st = "expired"] \in Seq(Code)
         /\ [code EXCEPT ![c].recent = FALSE] \in Seq(Code)
<1>1. code \in [1..Len(code) -> Code] /\ Len(code) \in Nat /\ DOMAIN code = 1..Len(code)
  BY LenProperties, Zenon
<1>2. [code[c] EXCEPT !.st = "expired"] \in Code /\ [code[c] EXCEPT !.recent = FALSE] \in Code
  BY <1>1 DEF Code
<1>3. /\ [code EXCEPT ![c].st = "expired"] \in [1..Len(code) -> Code]
      /\ [code EXCEPT ![c].recent = FALSE] \in [1..Len(code) -> Code]
  BY <1>1, <1>2
<1> QED BY <1>1, <1>3, SeqDef

\* What a request saw is well typed, and an answered slot is free.
LEMMA BeginType ==
  ASSUME TypeOK, NEW r \in Requests, NEW u \in Users, NEW step \in Steps,
         NEW p \in Purposes, NEW f \in Nat, NEW c \in Nat, Begin(r, step, u, p, f, c)
  PROVE  TypeOK'
<1>1. Cred(u) \in Credentials
  BY DEF TypeOK, Cred, Credentials, Account
<1>2. epoch[u] \in Nat
  BY DEF TypeOK
<1>3. [step |-> step, user |-> u, cred |-> Cred(u), purpose |-> p, family |-> f,
       code |-> c, epoch |-> epoch[u]] \in Request
  BY <1>1, <1>2 DEF Request
<1> QED BY <1>3 DEF TypeOK, Begin

LEMMA AnswerType ==
  ASSUME TypeOK, NEW r \in Requests, Answer(r)
  PROVE  req' \in [Requests -> {Idle} \cup Request]
BY DEF TypeOK, Answer

\* A slot whose step is due holds a request.
LEMMA DueRequest ==
  ASSUME TypeOK, NEW r \in Requests, NEW s \in Steps, req[r].step = s
  PROVE  req[r] \in Request /\ req[r] # Idle
<1>1. Idle.step = "idle" /\ s # "idle"
  BY DEF Idle, Steps
<1>2. req[r] \in {Idle} \cup Request
  BY DEF TypeOK
<1> QED BY <1>1, <1>2

\* Writing columns within their ranges keeps a User row well typed.
LEMMA CredentialColumns ==
  ASSUME NEW a \in Account, NEW v \in Nat, NEW h \in Nat, NEW b \in BOOLEAN
  PROVE  [a EXCEPT !.hash = h, !.ver = v, !.mustChange = b] \in Account
BY DEF Account

LEMMA MethodColumns ==
  ASSUME NEW a \in Account, NEW v \in Nat, NEW m \in AuthMethods
  PROVE  [a EXCEPT !.method = m, !.ver = v] \in Account
BY DEF Account

LEMMA StatusColumns ==
  ASSUME NEW a \in Account, NEW v \in Nat, NEW s \in Statuses
  PROVE  [a EXCEPT !.status = s, !.ver = v] \in Account
BY DEF Account

LEMMA LockColumns ==
  ASSUME NEW a \in Account, NEW n \in 0..MaxFailed, NEW b \in BOOLEAN
  PROVE  [a EXCEPT !.fails = n, !.locked = b] \in Account
BY DEF Account

LEMMA ResetColumns ==
  ASSUME NEW a \in Account, NEW v \in Nat, NEW h \in Nat, NEW n \in 0..MaxFailed,
         NEW b \in BOOLEAN, NEW c \in BOOLEAN
  PROVE  /\ [a EXCEPT !.hash = h, !.ver = v, !.mustChange = b, !.fails = n, !.locked = c]
              \in Account
         /\ [a EXCEPT !.hash = h, !.ver = v, !.fails = n, !.locked = c, !.mustChange = b]
              \in Account
BY DEF Account

LEMMA ZeroFails == 0 \in 0..MaxFailed /\ FALSE \in BOOLEAN
BY ConstantsAssumption

\* A step of the accounts that keeps the columns in range.
LEMMA AccountType ==
  ASSUME acct \in [Users -> Account], NEW u \in Users, NEW a \in Account,
         acct' = [acct EXCEPT ![u] = a]
  PROVE  acct' \in [Users -> Account]
OBVIOUS

LEMMA EndAllType ==
  ASSUME TypeOK, NEW u \in Users, EndAllAccess(u)
  PROVE  token' \in Seq(Token) /\ code' \in Seq(Code)
BY RevokedRows, UsedRows DEF TypeOK, EndAllAccess

\* The disjuncts of Next, one per operation: what an inductive proof splits on.
Operations ==
  \/ \E r \in Requests, u \in Users :
       \/ Login(r, u)
       \/ RequestOtpLogin(r, u)
       \/ \E c \in DOMAIN code : VerifyOtpLogin(r, u, c)
       \/ RequestPasswordRecovery(r, u)
       \/ \E f \in DOMAIN token : RequestMfaSetup(r, u, f)
  \/ \E r \in Requests : RecordFailedPasswordLogin(r)
  \/ \E r \in Requests : CompleteAuthenticatedSession(r)
  \/ \E r \in Requests : IssueOtpEmail(r)
  \/ \E u \in Users, c \in DOMAIN code : ConfirmPasswordRecovery(u, c)
  \/ \E u \in Users, f \in DOMAIN token, c \in DOMAIN code, m \in AuthMethods :
       ConfirmMfaSetup(u, f, c, m)
  \/ \E u \in Users, f \in DOMAIN token, b \in BOOLEAN : ChangePassword(u, f, b)
  \/ \E u \in Users, f, t \in DOMAIN token : RevokeSession(u, f, t)
  \/ \E u \in Users, f \in DOMAIN token : RevokeOtherSessions(u, f)
  \/ \E u \in Users : LockExpires(u)
  \/ \E a, u \in Users, f \in DOMAIN token, b \in BOOLEAN : ResetPassword(a, f, u, b)
  \/ \E a, u \in Users, f \in DOMAIN token : ForceLogout(a, f, u)
  \/ \E a, u \in Users, f \in DOMAIN token, s \in Statuses : UpdateStatus(a, f, u, s)
  \/ \E t \in DOMAIN token : Refresh(t)
  \/ \E t \in DOMAIN token : Logout(t)
  \/ \E t \in DOMAIN token : TokenExpires(t)
  \/ \E c \in DOMAIN code : CodeStep(c)
  \/ \E b \in BOOLEAN : SetTenantActive(b)

LEMMA NextIsOperations == Next => Operations
<1> SUFFICES ASSUME Next PROVE Operations
  OBVIOUS
<1>1. CASE \E r \in Requests : RequestStep(r)
  BY <1>1, Zenon DEF RequestStep, Operations
<1>2. CASE \E u \in Users : AccountStep(u)
  BY <1>2, Zenon DEF AccountStep, Operations
<1>3. CASE \E a, u \in Users, f \in DOMAIN token : GovernanceStep(a, f, u)
  BY <1>3, Zenon DEF GovernanceStep, Operations
<1>4. CASE \E t \in DOMAIN token : TokenStep(t)
  BY <1>4, Zenon DEF TokenStep, Operations
<1>5. CASE \E c \in DOMAIN code : CodeStep(c)
  BY <1>5, Zenon DEF Operations
<1>6. CASE \E b \in BOOLEAN : SetTenantActive(b)
  BY <1>6, Zenon DEF Operations
<1> QED BY <1>1, <1>2, <1>3, <1>4, <1>5, <1>6 DEF Next

\* A request that begins is one of the three kinds, on behalf of a user.
Beginning(r, u) ==
  \E step \in Steps, p \in Purposes, f, c \in Nat : Begin(r, step, u, p, f, c)

LEMMA ReadsBegin ==
  ASSUME TypeOK, NEW r \in Requests, NEW u \in Users,
         \/ Login(r, u)
         \/ RequestOtpLogin(r, u)
         \/ \E c \in DOMAIN code : VerifyOtpLogin(r, u, c)
         \/ RequestPasswordRecovery(r, u)
         \/ \E f \in DOMAIN token : RequestMfaSetup(r, u, f)
  PROVE  Beginning(r, u) /\ UNCHANGED <<acct, tenantActive, token, code, challenge, epoch>>
<1>1. DOMAIN code \subseteq Nat /\ DOMAIN token \subseteq Nat
  BY LenProperties DEF TypeOK
<1>2. /\ {"fail", "open", "otp"} \subseteq Steps
      /\ {"LOGIN", "RESET", "VERIFY"} \subseteq Purposes
      /\ 0 \in Nat
  BY DEF Steps, Purposes
<1>3. Beginning(r, u)
  BY <1>1, <1>2 DEF Beginning, Login, RequestOtpLogin, VerifyOtpLogin,
                    RequestPasswordRecovery, RequestMfaSetup
<1> QED BY <1>3 DEF Beginning, Begin

LEMMA TypeStep == TypeOK /\ [Next]_vars => TypeOK'
<1> SUFFICES ASSUME TypeOK, [Next]_vars PROVE TypeOK'
  OBVIOUS
<1> USE ConstantsAssumption
<1>0. CASE UNCHANGED vars
  BY <1>0 DEF TypeOK, vars
<1>1. CASE Operations
  <2>1. ASSUME NEW r \in Requests, NEW u \in Users, Beginning(r, u)
        PROVE  TypeOK'
    BY <2>1, BeginType DEF Beginning
  <2>2. ASSUME NEW r \in Requests, RecordFailedPasswordLogin(r)
        PROVE  TypeOK'
    <3> DEFINE u == req[r].user
               fails == IF acct[u].fails = MaxFailed THEN MaxFailed ELSE acct[u].fails + 1
               a == [acct[u] EXCEPT !.fails = fails, !.locked = (fails >= MaxFailed)]
    <3>1. u \in Users
      BY <2>2, DueRequest DEF RecordFailedPasswordLogin, Steps, Request
    <3>2. a \in Account
      <4>1. acct[u] \in Account
        BY <3>1 DEF TypeOK
      <4>2. fails \in 0..MaxFailed /\ (fails >= MaxFailed) \in BOOLEAN
        BY <4>1 DEF Account
      <4> HIDE DEF fails
      <4> QED BY <4>1, <4>2, LockColumns
    <3>3. CASE Reject(r)
      BY <3>3, AnswerType DEF TypeOK, Reject
    <3>4. CASE ~Reject(r)
      <4>1. acct' = [acct EXCEPT ![u] = a]
        BY <2>2, <3>1, <3>4 DEF RecordFailedPasswordLogin, TypeOK
      <4>2. token' \in Seq(Token)
        BY <2>2, <3>4, RevokedRows DEF RecordFailedPasswordLogin, TypeOK
      <4>3. req' \in [Requests -> {Idle} \cup Request]
        BY <2>2, <3>4, AnswerType DEF RecordFailedPasswordLogin
      <4> QED BY <2>2, <3>1, <3>2, <3>4, <4>1, <4>2, <4>3, AccountType
              DEF RecordFailedPasswordLogin, TypeOK
    <3> QED BY <3>3, <3>4
  <2>3. ASSUME NEW r \in Requests, CompleteAuthenticatedSession(r)
        PROVE  TypeOK'
    <3> DEFINE u == req[r].user
    <3>1. u \in Users /\ req[r].epoch \in Nat
      BY <2>3, DueRequest DEF CompleteAuthenticatedSession, Steps, Request
    <3>2. CASE Reject(r)
      BY <3>2, AnswerType DEF TypeOK, Reject
    <3>3. CASE ~Reject(r)
      <4>1. Session(u, Len(token) + 1, req[r].epoch) \in Token
        BY <3>1, LenProperties DEF Session, Token, TypeOK
      <4>2. token' \in Seq(Token)
        <5>1. token' = Append(token, Session(u, Len(token) + 1, req[r].epoch))
          BY <2>3, <3>3 DEF CompleteAuthenticatedSession, OpenFamily
        <5> QED BY <4>1, <5>1, Appended DEF TypeOK
      <4>3. code' \in Seq(Code)
        BY <2>3, <3>3, UsedRows DEF CompleteAuthenticatedSession, TypeOK
      <4>4. req' \in [Requests -> {Idle} \cup Request]
        BY <2>3, <3>3, AnswerType DEF CompleteAuthenticatedSession
      <4>5. acct' \in [Users -> Account]
        <5>1. acct' = [acct EXCEPT ![u] = [acct[u] EXCEPT !.fails = 0, !.locked = FALSE]]
          BY <2>3, <3>3 DEF CompleteAuthenticatedSession
        <5>2. [acct[u] EXCEPT !.fails = 0, !.locked = FALSE] \in Account
          BY <3>1, ZeroFails, LockColumns DEF TypeOK
        <5> QED BY <3>1, <5>1, <5>2, AccountType DEF TypeOK
      <4> QED BY <2>3, <3>3, <4>2, <4>3, <4>4, <4>5 DEF CompleteAuthenticatedSession, TypeOK
    <3> QED BY <3>2, <3>3
  <2>4. ASSUME NEW r \in Requests, IssueOtpEmail(r)
        PROVE  TypeOK'
    <3> DEFINE u == req[r].user
               p == req[r].purpose
               new == [owner |-> u, purpose |-> p, st |-> "unused",
                       recent |-> TRUE, ver |-> acct[u].ver]
    <3>1. u \in Users /\ p \in Purposes /\ req[r].cred \in Credentials
      BY <2>4, DueRequest DEF IssueOtpEmail, Steps, Request
    <3>2. CASE Reject(r)
      BY <3>2, AnswerType DEF TypeOK, Reject
    <3>3. CASE ~Reject(r)
      <4>1. new \in Code
        BY <3>1 DEF Code, TypeOK, Account
      <4>2. InvalidatedActiveOtps(u, p) \in Seq(Code)
        BY UsedRows DEF InvalidatedActiveOtps, TypeOK
      <4>3. code' \in Seq(Code)
        BY <2>4, <3>3, <4>1, <4>2, Appended DEF IssueOtpEmail
      <4>4. req' \in [Requests -> {Idle} \cup Request]
        BY <2>4, <3>3, AnswerType DEF IssueOtpEmail
      <4>5. challenge' \in [Users -> SUBSET Nat]
        <5>1. req[r].cred.ver \in Nat
          BY <3>1 DEF Credentials
        <5>2. challenge' = challenge
                \/ challenge' = [challenge EXCEPT ![u] = @ \cup {req[r].cred.ver}]
          BY <2>4, <3>3 DEF IssueOtpEmail
        <5>3. challenge \in [Users -> SUBSET Nat]
          BY DEF TypeOK
        <5>4. challenge[u] \cup {req[r].cred.ver} \in SUBSET Nat
          BY <3>1, <5>1, <5>3
        <5> QED BY <3>1, <5>2, <5>3, <5>4
      <4> QED BY <2>4, <3>3, <4>3, <4>4, <4>5 DEF IssueOtpEmail, TypeOK
    <3> QED BY <3>2, <3>3
  <2>5. ASSUME NEW u \in Users, NEW c \in DOMAIN code, ConfirmPasswordRecovery(u, c)
        PROVE  TypeOK'
    <3>0. acct[u] \in Account /\ acct[u].ver + 1 \in Nat /\ acct[u].hash + 1 \in Nat
      BY DEF TypeOK, Account
    <3>a. PICK h \in Nat, v \in Nat :
            acct' = [acct EXCEPT ![u] = [acct[u] EXCEPT !.hash = h, !.ver = v, !.mustChange = FALSE]]
      BY <2>5, <3>0 DEF ConfirmPasswordRecovery
    <3>1. acct' \in [Users -> Account]
      <4>1. [acct[u] EXCEPT !.hash = h, !.ver = v, !.mustChange = FALSE] \in Account
        BY <3>0 DEF Account
      <4> QED BY <3>a, <4>1, AccountType, SMTT(30) DEF TypeOK
    <3> QED BY <2>5, <3>1, EndAllType DEF ConfirmPasswordRecovery, CloseEpoch, TypeOK
  <2>6. ASSUME NEW u \in Users, NEW f \in DOMAIN token, NEW c \in DOMAIN code,
               NEW m \in AuthMethods, ConfirmMfaSetup(u, f, c, m)
        PROVE  TypeOK'
    <3>0. acct[u] \in Account /\ acct[u].ver + 1 \in Nat /\ acct[u].hash + 1 \in Nat
      BY DEF TypeOK, Account
    <3>a. PICK v \in Nat :
            acct' = [acct EXCEPT ![u] = [acct[u] EXCEPT !.method = m, !.ver = v]]
      BY <2>6, <3>0 DEF ConfirmMfaSetup
    <3>1. acct' \in [Users -> Account]
      <4>1. [acct[u] EXCEPT !.method = m, !.ver = v] \in Account
        BY <3>0 DEF Account
      <4> QED BY <3>a, <4>1, AccountType, SMTT(30) DEF TypeOK
    <3> QED BY <2>6, <3>1, EndAllType DEF ConfirmMfaSetup, CloseEpoch, TypeOK
  <2>7. ASSUME NEW u \in Users, NEW f \in DOMAIN token, NEW b \in BOOLEAN,
               ChangePassword(u, f, b)
        PROVE  TypeOK'
    <3>0. acct[u] \in Account /\ acct[u].ver + 1 \in Nat /\ acct[u].hash + 1 \in Nat
      BY DEF TypeOK, Account
    <3>a. PICK h \in Nat, v \in Nat :
            acct' = [acct EXCEPT ![u] = [acct[u] EXCEPT !.hash = h, !.ver = v, !.mustChange = FALSE, !.fails = 0, !.locked = FALSE]]
      BY <2>7, <3>0, ZenonT(60) DEF ChangePassword
    <3>1. acct' \in [Users -> Account]
      <4>1. [acct[u] EXCEPT !.hash = h, !.ver = v, !.mustChange = FALSE, !.fails = 0, !.locked = FALSE] \in Account
        BY <3>0, ZeroFails, ResetColumns
      <4> QED BY <3>a, <4>1, AccountType, SMTT(30) DEF TypeOK
    <3>2. token' \in Seq(Token)
      BY <2>7, RevokedRows DEF ChangePassword, TypeOK
    <3>3. code' \in Seq(Code)
      BY <2>7, UsedRows DEF ChangePassword, TypeOK
    <3> QED BY <2>7, <3>1, <3>2, <3>3 DEF ChangePassword, TypeOK
  <2>8. ASSUME NEW u \in Users, NEW f \in DOMAIN token, NEW t \in DOMAIN token,
               RevokeSession(u, f, t)
        PROVE  TypeOK'
    <3>1. token' \in Seq(Token)
      BY <2>8, RevokedRows DEF RevokeSession, TypeOK
    <3> QED BY <2>8, <3>1 DEF RevokeSession, TypeOK
  <2>9. ASSUME NEW u \in Users, NEW f \in DOMAIN token, RevokeOtherSessions(u, f)
        PROVE  TypeOK'
    <3>1. token' \in Seq(Token)
      BY <2>9, RevokedRows DEF RevokeOtherSessions, TypeOK
    <3> QED BY <2>9, <3>1 DEF RevokeOtherSessions, TypeOK
  <2>10. ASSUME NEW u \in Users, LockExpires(u)
         PROVE  TypeOK'
    <3>1. acct' \in [Users -> Account]
      BY <2>10 DEF LockExpires, TypeOK, Account
    <3> QED BY <2>10, <3>1 DEF LockExpires, TypeOK
  <2>11. ASSUME NEW a \in Users, NEW u \in Users, NEW f \in DOMAIN token, NEW b \in BOOLEAN,
                ResetPassword(a, f, u, b)
         PROVE  TypeOK'
    <3>0. acct[u] \in Account /\ acct[u].ver + 1 \in Nat /\ acct[u].hash + 1 \in Nat
      BY DEF TypeOK, Account
    <3>a. PICK h \in Nat, v \in Nat :
            acct' = [acct EXCEPT ![u] = [acct[u] EXCEPT !.hash = h, !.ver = v, !.fails = 0, !.locked = FALSE, !.mustChange = b]]
      BY <2>11, <3>0, ZenonT(60) DEF ResetPassword
    <3>1. acct' \in [Users -> Account]
      <4>1. [acct[u] EXCEPT !.hash = h, !.ver = v, !.fails = 0, !.locked = FALSE, !.mustChange = b] \in Account
        BY <3>0, ZeroFails, ResetColumns
      <4> QED BY <3>a, <4>1, AccountType, SMTT(30) DEF TypeOK
    <3> QED BY <2>11, <3>1, EndAllType DEF ResetPassword, CloseEpoch, TypeOK
  <2>12. ASSUME NEW a \in Users, NEW u \in Users, NEW f \in DOMAIN token, ForceLogout(a, f, u)
         PROVE  TypeOK'
    <3>0. acct[u] \in Account /\ acct[u].ver + 1 \in Nat /\ acct[u].hash + 1 \in Nat
      BY DEF TypeOK, Account
    <3>a. PICK v \in Nat :
            acct' = [acct EXCEPT ![u] = [acct[u] EXCEPT !.ver = v]]
      BY <2>12, <3>0 DEF ForceLogout
    <3>1. acct' \in [Users -> Account]
      <4>1. [acct[u] EXCEPT !.ver = v] \in Account
        BY <3>0 DEF Account
      <4> QED BY <3>a, <4>1, AccountType, SMTT(30) DEF TypeOK
    <3> QED BY <2>12, <3>1, EndAllType DEF ForceLogout, CloseEpoch, TypeOK
  <2>13. ASSUME NEW a \in Users, NEW u \in Users, NEW f \in DOMAIN token, NEW s \in Statuses,
                UpdateStatus(a, f, u, s)
         PROVE  TypeOK'
    <3>0. acct[u] \in Account /\ acct[u].ver + 1 \in Nat /\ acct[u].hash + 1 \in Nat
      BY DEF TypeOK, Account
    <3>a. PICK v \in Nat :
            acct' = [acct EXCEPT ![u] = [acct[u] EXCEPT !.status = s, !.ver = v]]
      <4>1. \/ acct' = [acct EXCEPT ![u] = [acct[u] EXCEPT !.status = s, !.ver = acct[u].ver]]
            \/ acct' = [acct EXCEPT ![u] = [acct[u] EXCEPT !.status = s, !.ver = acct[u].ver + 1]]
        BY <2>13 DEF UpdateStatus
      <4>2. acct[u].ver \in Nat
        BY <3>0 DEF Account
      <4> QED BY <3>0, <4>1, <4>2
    <3>1. acct' \in [Users -> Account]
      <4>1. [acct[u] EXCEPT !.status = s, !.ver = v] \in Account
        BY <3>0 DEF Account
      <4> QED BY <3>a, <4>1, AccountType, SMTT(30) DEF TypeOK
    <3>2. token' \in Seq(Token) /\ code' \in Seq(Code)
      BY <2>13, EndAllType DEF UpdateStatus, TypeOK
    <3>3. epoch' \in [Users -> Nat]
      BY <2>13 DEF UpdateStatus, CloseEpoch, TypeOK
    <3> QED BY <2>13, <3>1, <3>2, <3>3 DEF UpdateStatus, TypeOK
  <2>14. ASSUME NEW t \in DOMAIN token, Refresh(t)
         PROVE  TypeOK'
    <3>1. token[t] \in Token
      BY LenProperties DEF TypeOK
    <3>2. Session(token[t].owner, token[t].family, token[t].proof) \in Token
      BY <3>1 DEF Session, Token
    <3>3. Rotated(t) \in Seq(Token)
      BY <3>2, RevokedRows, Appended DEF Rotated, TypeOK
    <3>4. token' \in Seq(Token)
      BY <2>14, <3>3, RevokedRows DEF Refresh, TypeOK
    <3> QED BY <2>14, <3>4 DEF Refresh, TypeOK
  <2>15. ASSUME NEW t \in DOMAIN token, Logout(t)
         PROVE  TypeOK'
    BY <2>15, RevokedRows DEF Logout, TypeOK
  <2>16. ASSUME NEW t \in DOMAIN token, TokenExpires(t)
         PROVE  TypeOK'
    BY <2>16, ExpiredRow DEF TokenExpires, TypeOK
  <2>17. ASSUME NEW c \in DOMAIN code, CodeStep(c)
         PROVE  TypeOK'
    BY <2>17, ChangedCode DEF CodeStep, CodeExpires, CodeLeavesWindow, TypeOK
  <2>18. ASSUME NEW b \in BOOLEAN, SetTenantActive(b)
         PROVE  TypeOK'
    BY <2>18 DEF SetTenantActive, TypeOK
  <2> QED BY <1>1, <2>1, <2>2, <2>3, <2>4, <2>5, <2>6, <2>7, <2>8, <2>9, <2>10, <2>11,
             <2>12, <2>13, <2>14, <2>15, <2>16, <2>17, <2>18, ReadsBegin DEF Operations
<1> QED BY <1>0, <1>1, NextIsOperations

LEMMA TypeInit == Init => TypeOK
<1> SUFFICES ASSUME Init PROVE TypeOK
  OBVIOUS
<1> DEFINE Fresh(m) == [status |-> "ACTIVE", ver |-> 0, hash |-> 0, method |-> m,
                        fails |-> 0, locked |-> FALSE, mustChange |-> FALSE]
<1>0. \A m \in AuthMethods : Fresh(m) \in Account
  BY ConstantsAssumption DEF Account, Statuses
<1>1. acct \in [Users -> Account]
  <2>1. acct \in [Users -> {Fresh(m) : m \in AuthMethods}]
    BY DEF Init
  <2> HIDE DEF Fresh
  <2> QED BY <1>0, <2>1
<1>2. token \in Seq(Token) /\ code \in Seq(Code)
  BY DEF Init
<1> QED BY <1>1, <1>2 DEF Init, TypeOK

\* Every row, request and history field keeps its type, for any number of
\* accounts and requests: in particular a live row always names its family.
THEOREM TypeCorrect == Spec => []TypeOK
<1> QED BY TypeInit, TypeStep, PTL DEF Spec

-----------------------------------------------------------------------------
(* Sessions.  The inductive argument looks at one step's effect on rows.    *)

\* An account whose sessions may be alive
Open(a) == ~a.locked /\ a.status = "ACTIVE"

\* Old rows keep their columns, only lose standing, and an unrevoked one has an
\* owner that no ending event touched.
KeptRows ==
  \A t \in DOMAIN token :
    /\ t \in DOMAIN token'
    /\ token'[t].owner = token[t].owner
    /\ token'[t].family = token[t].family
    /\ token'[t].proof = token[t].proof
    /\ token'[t].st = "live" => token[t].st = "live"
    /\ token'[t].st # "revoked" =>
         /\ token[t].st # "revoked"
         /\ epoch'[token[t].owner] = epoch[token[t].owner]
         /\ Open(acct[token[t].owner]) => Open(acct'[token[t].owner])

\* A new row opens a family for a request whose snapshot is current, or
\* succeeds a live row that is revoked in the same step.
NewRows ==
  \A t \in DOMAIN token' \ DOMAIN token :
    /\ t = Len(token) + 1
    /\ Open(acct'[token'[t].owner])
    /\ epoch' = epoch
    /\ \/ /\ token'[t].family = t
          /\ \E r \in Requests : /\ req[r] \in Request /\ req[r] # Idle
                                 /\ token'[t].owner = req[r].user
                                 /\ token'[t].proof = req[r].epoch
                                 /\ CredentialsUnchanged(r)
       \/ \E s \in DOMAIN token : /\ token[s].st = "live" /\ token'[s].st = "revoked"
                                  /\ token'[t].owner = token[s].owner
                                  /\ token'[t].family = token[s].family
                                  /\ token'[t].proof = token[s].proof

RowStep == KeptRows /\ NewRows

\* A row and its owner are typed.
LEMMA RowType ==
  ASSUME TypeOK, NEW t \in DOMAIN token
  PROVE  /\ token[t] \in Token /\ token[t].owner \in Users /\ token[t].family \in Nat
         /\ t \in Nat /\ t <= Len(token) /\ Len(token) \in Nat
<1>1. token \in [1..Len(token) -> Token] /\ Len(token) \in Nat /\ DOMAIN token = 1..Len(token)
  BY LenProperties DEF TypeOK
<1> QED BY <1>1 DEF Token

\* Revoking some rows, while no account closes and no epoch ends.
LEMMA SomeRevoked ==
  ASSUME TypeOK, token' = token \/ \E S : token' = Revoked(S),
         \A v \in Users : epoch'[v] = epoch[v] /\ (Open(acct[v]) => Open(acct'[v]))
  PROVE  RowStep
<1>1. CASE token' = token
  BY <1>1, RowType DEF RowStep, KeptRows, NewRows
<1>2. ASSUME NEW S, token' = Revoked(S) PROVE RowStep
  <2>1. /\ DOMAIN token' = DOMAIN token
        /\ \A t \in DOMAIN token :
             token'[t] = IF t \in S THEN [token[t] EXCEPT !.st = "revoked"] ELSE token[t]
    BY <1>2, RevokedRows DEF TypeOK
  <2>2. ASSUME NEW t \in DOMAIN token
        PROVE  /\ token'[t].owner = token[t].owner /\ token'[t].family = token[t].family
               /\ token'[t].proof = token[t].proof
               /\ token'[t].st # "revoked" => token'[t].st = token[t].st
    BY <2>1, RowType DEF Token
  <2> QED BY <2>1, <2>2, RowType DEF RowStep, KeptRows, NewRows
<1> QED BY <1>1, <1>2

\* Ending every session of u touches no other account.
LEMMA AllRevoked ==
  ASSUME TypeOK, NEW u \in Users, token' = Revoked(UnrevokedOf(u)),
         \A v \in Users \ {u} : epoch'[v] = epoch[v] /\ acct'[v] = acct[v]
  PROVE  RowStep
<1>1. /\ DOMAIN token' = DOMAIN token
      /\ \A t \in DOMAIN token :
           token'[t] = IF t \in UnrevokedOf(u) THEN [token[t] EXCEPT !.st = "revoked"]
                                               ELSE token[t]
  BY RevokedRows, SMTT(30) DEF TypeOK
<1>2. ASSUME NEW t \in DOMAIN token
      PROVE  /\ token'[t].owner = token[t].owner /\ token'[t].family = token[t].family
             /\ token'[t].proof = token[t].proof
             /\ token'[t].st # "revoked" => token'[t].st = token[t].st /\ token[t].owner # u
  BY <1>1, RowType DEF Token, UnrevokedOf
<1>3. \A v \in Users \ {u} : Open(acct[v]) => Open(acct'[v])
  BY DEF Open
<1> QED BY <1>1, <1>2, <1>3, RowType DEF RowStep, KeptRows, NewRows

\* completeAuthenticatedSession adds one row, of its request's account.
LEMMA OpenedRow ==
  ASSUME TypeOK, NEW r \in Requests, CompleteAuthenticatedSession(r), ~Reject(r)
  PROVE  RowStep
<1> DEFINE u == req[r].user
           new == Session(u, Len(token) + 1, req[r].epoch)
<1>1. req[r] \in Request /\ req[r] # Idle /\ u \in Users /\ req[r].epoch \in Nat
  BY DueRequest DEF CompleteAuthenticatedSession, Steps, Request
<1>2. new \in Token
  BY <1>1, LenProperties DEF Session, Token, TypeOK
<1>3. /\ token' = Append(token, new) /\ CanAuthenticate(u) /\ CredentialsUnchanged(r)
      /\ acct' = [acct EXCEPT ![u].fails = 0, ![u].locked = FALSE]
      /\ UNCHANGED epoch
  BY DEF CompleteAuthenticatedSession, OpenFamily
<1>4. /\ DOMAIN token' = DOMAIN token \cup {Len(token) + 1}
      /\ \A t \in DOMAIN token : token'[t] = token[t]
      /\ token'[Len(token) + 1] = new
  BY <1>2, <1>3, Appended DEF TypeOK
<1>5. \A v \in Users : Open(acct[v]) => Open(acct'[v])
  BY <1>1, <1>3 DEF Open, TypeOK, Account
<1>6. Open(acct'[u])
  BY <1>1, <1>3 DEF Open, CanAuthenticate, TypeOK, Account
<1>7. KeptRows
  BY <1>3, <1>4, <1>5, RowType DEF KeptRows
<1>8. new.owner = u /\ new.family = Len(token) + 1 /\ new.proof = req[r].epoch
  BY DEF Session
<1>9. NewRows
  BY <1>1, <1>3, <1>4, <1>6, <1>8 DEF NewRows
<1> QED BY <1>7, <1>9 DEF RowStep

\* refresh revokes the family of a revoked row, or replaces a live row by one
\* row of the same family.
LEMMA RefreshRows ==
  ASSUME TypeOK, NEW t \in DOMAIN token, Refresh(t)
  PROVE  RowStep
<1>1. acct' = acct /\ epoch' = epoch /\ CanAuthenticate(token[t].owner)
  BY DEF Refresh
<1>2. \A v \in Users : Open(acct[v]) => Open(acct'[v])
  BY <1>1 DEF Open
<1>3. CASE token' = Revoked(FamilyOf(token[t].owner, token[t].family))
  BY <1>1, <1>2, <1>3, SomeRevoked
<1>4. CASE MayRotate(t) /\ token' = Rotated(t)
  <2> DEFINE new == Session(token[t].owner, token[t].family, token[t].proof)
  <2>1. new \in Token /\ new.owner = token[t].owner /\ new.family = token[t].family
        /\ new.proof = token[t].proof
    BY RowType DEF Session, Token
  <2>2. /\ Revoked({t}) \in Seq(Token) /\ Len(Revoked({t})) = Len(token)
        /\ DOMAIN Revoked({t}) = DOMAIN token
        /\ \A s \in DOMAIN token :
             Revoked({t})[s] = IF s \in {t} THEN [token[s] EXCEPT !.st = "revoked"] ELSE token[s]
    BY RevokedRows DEF TypeOK
  <2>3. /\ DOMAIN token' = DOMAIN token \cup {Len(token) + 1}
        /\ \A s \in DOMAIN token : token'[s] = Revoked({t})[s]
        /\ token'[Len(token) + 1] = new
    <3> DEFINE rows == Revoked({t})
    <3>1. token' = Append(rows, new)
      BY <1>4 DEF Rotated
    <3>2. rows \in Seq(Token) /\ Len(rows) = Len(token) /\ DOMAIN rows = DOMAIN token
      BY <2>2
    <3> HIDE DEF rows, new
    <3>3. /\ DOMAIN token' = DOMAIN rows \cup {Len(rows) + 1}
          /\ \A s \in DOMAIN rows : token'[s] = rows[s]
          /\ token'[Len(rows) + 1] = new
      BY <2>1, <3>1, <3>2, Appended
    <3> QED BY <3>2, <3>3 DEF rows
  <2>4. ASSUME NEW s \in DOMAIN token
        PROVE  /\ token'[s].owner = token[s].owner /\ token'[s].family = token[s].family
               /\ token'[s].proof = token[s].proof
               /\ token'[s].st # "revoked" => token'[s].st = token[s].st
               /\ s = t => token'[s].st = "revoked"
    <3>1. CASE s = t
      <4>1. token'[s] = [token[s] EXCEPT !.st = "revoked"]
        BY <2>2, <2>3, <3>1
      <4> QED BY <3>1, <4>1, RowType DEF Token
    <3>2. CASE s # t
      BY <2>2, <2>3, <3>2
    <3> QED BY <3>1, <3>2
  <2>5. token[t].st = "live"
    BY <1>4 DEF MayRotate
  <2>6. Open(acct'[token[t].owner])
    BY <1>1 DEF Open, CanAuthenticate
  <2>7. KeptRows
    BY <1>1, <1>2, <2>3, <2>4, RowType DEF KeptRows
  <2>8. NewRows
    BY <1>1, <2>1, <2>3, <2>4, <2>5, <2>6 DEF NewRows
  <2> QED BY <2>7, <2>8 DEF RowStep
<1> QED BY <1>3, <1>4 DEF Refresh

\* expiresAt passes for one row.
LEMMA ExpiryRows ==
  ASSUME TypeOK, NEW t \in DOMAIN token, TokenExpires(t)
  PROVE  RowStep
<1>1. /\ acct' = acct /\ epoch' = epoch /\ token[t].st = "live"
      /\ token' = [token EXCEPT ![t].st = "expired"]
  BY DEF TokenExpires
<1>2. \A v \in Users : Open(acct[v]) => Open(acct'[v])
  BY <1>1 DEF Open
<1>3. DOMAIN token' = DOMAIN token
  BY <1>1
<1>4. ASSUME NEW s \in DOMAIN token
      PROVE  /\ token'[s].owner = token[s].owner /\ token'[s].family = token[s].family
             /\ token'[s].proof = token[s].proof
             /\ token'[s].st = "live" => token[s].st = "live"
             /\ token'[s].st # "revoked" => token[s].st # "revoked"
  BY <1>1, RowType DEF Token
<1> QED BY <1>1, <1>2, <1>3, <1>4, RowType DEF RowStep, KeptRows, NewRows

\* Every operation moves the rows in one of these ways.
LEMMA EveryStepIsRowStep == TypeOK /\ [Next]_vars => RowStep
<1> SUFFICES ASSUME TypeOK, [Next]_vars PROVE RowStep
  OBVIOUS
<1> DEFINE Still == /\ token' = token \/ \E S : token' = Revoked(S)
                    /\ \A v \in Users : epoch'[v] = epoch[v] /\ (Open(acct[v]) => Open(acct'[v]))
           EndsAll(u) == /\ token' = Revoked(UnrevokedOf(u))
                         /\ \A v \in Users \ {u} : epoch'[v] = epoch[v] /\ acct'[v] = acct[v]
<1>s. Still => RowStep
  BY SomeRevoked
<1>e. ASSUME NEW u \in Users, EndsAll(u) PROVE RowStep
  BY <1>e, AllRevoked
<1> HIDE DEF EndsAll
<1>0. CASE UNCHANGED vars
  BY <1>0, <1>s DEF vars, Open
<1>1. CASE Operations
  <2>2. ASSUME NEW r \in Requests, RecordFailedPasswordLogin(r)
        PROVE  RowStep
    <3> DEFINE u == req[r].user
               fails == IF acct[u].fails = MaxFailed THEN MaxFailed ELSE acct[u].fails + 1
    <3>1. u \in Users
      BY <2>2, DueRequest DEF RecordFailedPasswordLogin, Steps, Request
    <3>2. CASE Reject(r)
      BY <3>2, <1>s DEF Reject, Open
    <3>3. CASE ~Reject(r)
      <4>1. /\ acct' = [acct EXCEPT ![u].fails = fails, ![u].locked = (fails >= MaxFailed)]
            /\ token' = IF fails >= MaxFailed THEN Revoked(UnrevokedOf(u)) ELSE token
            /\ epoch' = epoch
        BY <2>2, <3>3 DEF RecordFailedPasswordLogin
      <4> HIDE DEF fails
      <4>2. CASE fails >= MaxFailed
        <5>1. EndsAll(u)
          BY <3>1, <4>1, <4>2 DEF EndsAll, TypeOK
        <5> QED BY <3>1, <5>1, <1>e
      <4>3. CASE ~(fails >= MaxFailed)
        <5>1. \A v \in Users : Open(acct[v]) => Open(acct'[v])
          BY <3>1, <4>1, <4>3 DEF Open, TypeOK, Account
        <5> QED BY <4>1, <4>3, <5>1, <1>s
      <4> QED BY <4>2, <4>3
    <3> QED BY <3>2, <3>3
  <2>3. ASSUME NEW r \in Requests, CompleteAuthenticatedSession(r)
        PROVE  RowStep
    <3>1. CASE Reject(r)
      BY <3>1, <1>s DEF Reject, Open
    <3> QED BY <2>3, <3>1, OpenedRow
  <2>4. ASSUME NEW r \in Requests, IssueOtpEmail(r)
        PROVE  UNCHANGED <<acct, token, epoch>>
    BY <2>4 DEF IssueOtpEmail, Reject
  <2>5. ASSUME NEW u \in Users, NEW c \in DOMAIN code, ConfirmPasswordRecovery(u, c)
        PROVE  EndsAll(u)
    BY <2>5 DEF EndsAll, ConfirmPasswordRecovery, EndAllAccess, CloseEpoch, TypeOK
  <2>6. ASSUME NEW u \in Users, NEW f \in DOMAIN token, NEW c \in DOMAIN code,
               NEW m \in AuthMethods, ConfirmMfaSetup(u, f, c, m)
        PROVE  EndsAll(u)
    BY <2>6 DEF EndsAll, ConfirmMfaSetup, EndAllAccess, CloseEpoch, TypeOK
  <2>7. ASSUME NEW u \in Users, NEW f \in DOMAIN token, NEW b \in BOOLEAN,
               ChangePassword(u, f, b)
        PROVE  Still
    <3>1. /\ acct' = [acct EXCEPT ![u].hash = @ + 1, ![u].ver = @ + 1, ![u].mustChange = FALSE,
                                  ![u].fails = 0, ![u].locked = FALSE]
          /\ epoch' = epoch
          /\ token' = token \/ \E S : token' = Revoked(S)
      BY <2>7 DEF ChangePassword
    <3>2. ASSUME NEW v \in Users PROVE Open(acct[v]) => Open(acct'[v])
      BY <3>1 DEF Open, TypeOK, Account
    <3> QED BY <3>1, <3>2
  <2>8. ASSUME NEW u \in Users, NEW f \in DOMAIN token, NEW t \in DOMAIN token,
               RevokeSession(u, f, t)
        PROVE  Still
    BY <2>8 DEF RevokeSession, Open
  <2>9. ASSUME NEW u \in Users, NEW f \in DOMAIN token, RevokeOtherSessions(u, f)
        PROVE  Still
    BY <2>9 DEF RevokeOtherSessions, Open
  <2>10. ASSUME NEW u \in Users, LockExpires(u)
         PROVE  Still
    <3>1. ASSUME NEW v \in Users PROVE Open(acct[v]) => Open(acct'[v])
      BY <2>10 DEF LockExpires, Open, TypeOK, Account
    <3> QED BY <2>10, <3>1 DEF LockExpires
  <2>11. ASSUME NEW a \in Users, NEW u \in Users, NEW f \in DOMAIN token, NEW b \in BOOLEAN,
                ResetPassword(a, f, u, b)
         PROVE  EndsAll(u)
    BY <2>11 DEF EndsAll, ResetPassword, EndAllAccess, CloseEpoch, TypeOK
  <2>12. ASSUME NEW a \in Users, NEW u \in Users, NEW f \in DOMAIN token, ForceLogout(a, f, u)
         PROVE  EndsAll(u)
    BY <2>12 DEF EndsAll, ForceLogout, EndAllAccess, CloseEpoch, TypeOK
  <2>13. ASSUME NEW a \in Users, NEW u \in Users, NEW f \in DOMAIN token, NEW s \in Statuses,
                UpdateStatus(a, f, u, s)
         PROVE  RowStep
    <3>1. CASE s # "ACTIVE"
      <4>1. EndsAll(u)
        BY <2>13, <3>1 DEF EndsAll, UpdateStatus, EndAllAccess, CloseEpoch, TypeOK
      <4> QED BY <4>1, <1>e
    <3>2. CASE s = "ACTIVE"
      <4>1. token' = token /\ epoch' = epoch
        BY <2>13, <3>2 DEF UpdateStatus
      <4>2. ASSUME NEW v \in Users PROVE Open(acct[v]) => Open(acct'[v])
        BY <2>13, <3>2 DEF UpdateStatus, Open, TypeOK, Account
      <4> QED BY <4>1, <4>2, <1>s
    <3> QED BY <3>1, <3>2
  <2>15. ASSUME NEW t \in DOMAIN token, Logout(t)
         PROVE  Still
    BY <2>15 DEF Logout, Open
  <2>17. ASSUME NEW c \in DOMAIN code, CodeStep(c)
         PROVE  UNCHANGED <<acct, token, epoch>>
    BY <2>17 DEF CodeStep, CodeExpires, CodeLeavesWindow
  <2>18. ASSUME NEW b \in BOOLEAN, SetTenantActive(b)
         PROVE  UNCHANGED <<acct, token, epoch>>
    BY <2>18 DEF SetTenantActive
  <2>19. UNCHANGED <<acct, token, epoch>> => RowStep
    BY <1>s DEF Open
  <2> HIDE DEF Still
  <2> QED BY <1>1, <1>s, <1>e, <2>2, <2>3, <2>4, <2>5, <2>6, <2>7, <2>8, <2>9, <2>10, <2>11,
             <2>12, <2>13, <2>15, <2>17, <2>18, <2>19, ReadsBegin, RefreshRows, ExpiryRows
          DEF Operations
<1> QED BY <1>0, <1>1, NextIsOperations

\* A family is named after its first row.
FamiliesNamedByRows == \A t \in DOMAIN token : token[t].family <= Len(token)

\* What a request in flight proves: authVersion only grows, and a snapshot that
\* still shows the account's authVersion was taken in the account's epoch.
RequestsCurrent ==
  \A r \in Requests :
    req[r] # Idle =>
      /\ req[r].cred.ver <= acct[req[r].user].ver
      /\ req[r].cred.ver = acct[req[r].user].ver => req[r].epoch = epoch[req[r].user]

\* authVersion never decreases, and an epoch ends only with a new authVersion.
VersionsGrow ==
  \A u \in Users :
    /\ acct'[u].ver >= acct[u].ver
    /\ epoch'[u] # epoch[u] => acct'[u].ver > acct[u].ver

LEMMA VersionStep == TypeOK /\ [Next]_vars => VersionsGrow
<1> SUFFICES ASSUME TypeOK, [Next]_vars, NEW v \in Users
             PROVE  acct'[v].ver >= acct[v].ver /\ (epoch'[v] # epoch[v] => acct'[v].ver > acct[v].ver)
  BY DEF VersionsGrow
<1> DEFINE Grows == acct'[v].ver >= acct[v].ver /\ (epoch'[v] # epoch[v] => acct'[v].ver > acct[v].ver)
<1>v. acct[v] \in Account /\ acct[v].ver \in Nat
  BY DEF TypeOK, Account
<1>u. UNCHANGED <<acct, epoch>> => Grows
  BY <1>v
<1>e. ASSUME NEW u \in Users, CloseEpoch(u) \/ UNCHANGED epoch,
             acct'[v].ver = IF u = v THEN acct[v].ver + 1 ELSE acct[v].ver
      PROVE  Grows
  <2>1. CASE u = v
    BY <1>e, <1>v, <2>1
  <2>2. CASE u # v
    <3>1. epoch'[v] = epoch[v]
      BY <1>e, <2>2 DEF CloseEpoch, TypeOK
    <3> QED BY <1>e, <1>v, <2>2, <3>1
  <2> QED BY <2>1, <2>2
<1>0. CASE UNCHANGED vars
  BY <1>0, <1>u DEF vars
<1>1. CASE Operations
  <2>2. ASSUME NEW r \in Requests, RecordFailedPasswordLogin(r)
        PROVE  Grows
    <3>1. req[r].user \in Users
      BY <2>2, DueRequest DEF RecordFailedPasswordLogin, Steps, Request
    <3>2. CASE Reject(r)
      BY <3>2, <1>u DEF Reject
    <3>3. CASE ~Reject(r)
      <4>1. PICK n, b : acct' = [acct EXCEPT ![req[r].user].fails = n, ![req[r].user].locked = b]
        BY <2>2, <3>3 DEF RecordFailedPasswordLogin
      <4>2. epoch' = epoch
        BY <2>2, <3>3 DEF RecordFailedPasswordLogin
      <4> QED BY <3>1, <4>1, <4>2, <1>v DEF TypeOK, Account
    <3> QED BY <3>2, <3>3
  <2>3. ASSUME NEW r \in Requests, CompleteAuthenticatedSession(r)
        PROVE  Grows
    <3>1. req[r].user \in Users
      BY <2>3, DueRequest DEF CompleteAuthenticatedSession, Steps, Request
    <3>2. CASE Reject(r)
      BY <3>2, <1>u DEF Reject
    <3>3. CASE ~Reject(r)
      <4>1. acct' = [acct EXCEPT ![req[r].user].fails = 0, ![req[r].user].locked = FALSE]
        BY <2>3, <3>3 DEF CompleteAuthenticatedSession
      <4>2. epoch' = epoch
        BY <2>3, <3>3 DEF CompleteAuthenticatedSession
      <4> QED BY <3>1, <4>1, <4>2, <1>v DEF TypeOK, Account
    <3> QED BY <3>2, <3>3
  <2>4. ASSUME NEW r \in Requests, IssueOtpEmail(r)
        PROVE  Grows
    BY <1>u, <2>4 DEF IssueOtpEmail, Reject
  <2>5. ASSUME NEW u \in Users, NEW c \in DOMAIN code, ConfirmPasswordRecovery(u, c)
        PROVE  Grows
    <3>1. v \in DOMAIN acct /\ u \in DOMAIN acct /\ "ver" \in DOMAIN acct[v]
      BY <1>v DEF TypeOK, Account
    <3>2. acct'[v].ver = IF u = v THEN acct[v].ver + 1 ELSE acct[v].ver
      BY <2>5, <3>1 DEF ConfirmPasswordRecovery
    <3>3. CloseEpoch(u) \/ UNCHANGED epoch
      BY <2>5 DEF ConfirmPasswordRecovery
    <3> QED BY <1>e, <3>2, <3>3
  <2>6. ASSUME NEW u \in Users, NEW f \in DOMAIN token, NEW c \in DOMAIN code,
               NEW m \in AuthMethods, ConfirmMfaSetup(u, f, c, m)
        PROVE  Grows
    <3>1. v \in DOMAIN acct /\ u \in DOMAIN acct /\ "ver" \in DOMAIN acct[v]
      BY <1>v DEF TypeOK, Account
    <3>2. acct'[v].ver = IF u = v THEN acct[v].ver + 1 ELSE acct[v].ver
      BY <2>6, <3>1 DEF ConfirmMfaSetup
    <3>3. CloseEpoch(u) \/ UNCHANGED epoch
      BY <2>6 DEF ConfirmMfaSetup
    <3> QED BY <1>e, <3>2, <3>3
  <2>7. ASSUME NEW u \in Users, NEW f \in DOMAIN token, NEW b \in BOOLEAN,
               ChangePassword(u, f, b)
        PROVE  Grows
    <3>1. v \in DOMAIN acct /\ u \in DOMAIN acct /\ "ver" \in DOMAIN acct[v]
      BY <1>v DEF TypeOK, Account
    <3>2. acct'[v].ver = IF u = v THEN acct[v].ver + 1 ELSE acct[v].ver
      BY <2>7, <3>1 DEF ChangePassword
    <3>3. CloseEpoch(u) \/ UNCHANGED epoch
      BY <2>7 DEF ChangePassword
    <3> QED BY <1>e, <3>2, <3>3
  <2>8. ASSUME NEW u \in Users, NEW f \in DOMAIN token, NEW t \in DOMAIN token,
               RevokeSession(u, f, t)
        PROVE  Grows
    BY <1>u, <2>8 DEF RevokeSession
  <2>9. ASSUME NEW u \in Users, NEW f \in DOMAIN token, RevokeOtherSessions(u, f)
        PROVE  Grows
    BY <1>u, <2>9 DEF RevokeOtherSessions
  <2>10. ASSUME NEW u \in Users, LockExpires(u)
         PROVE  Grows
    BY <2>10, <1>v DEF LockExpires, TypeOK, Account
  <2>11. ASSUME NEW a \in Users, NEW u \in Users, NEW f \in DOMAIN token, NEW b \in BOOLEAN,
                ResetPassword(a, f, u, b)
         PROVE  Grows
    <3>1. v \in DOMAIN acct /\ u \in DOMAIN acct /\ "ver" \in DOMAIN acct[v]
      BY <1>v DEF TypeOK, Account
    <3>2. acct'[v].ver = IF u = v THEN acct[v].ver + 1 ELSE acct[v].ver
      BY <2>11, <3>1 DEF ResetPassword
    <3>3. CloseEpoch(u) \/ UNCHANGED epoch
      BY <2>11 DEF ResetPassword
    <3> QED BY <1>e, <3>2, <3>3
  <2>12. ASSUME NEW a \in Users, NEW u \in Users, NEW f \in DOMAIN token, ForceLogout(a, f, u)
         PROVE  Grows
    <3>1. v \in DOMAIN acct /\ u \in DOMAIN acct /\ "ver" \in DOMAIN acct[v]
      BY <1>v DEF TypeOK, Account
    <3>2. acct'[v].ver = IF u = v THEN acct[v].ver + 1 ELSE acct[v].ver
      BY <2>12, <3>1 DEF ForceLogout
    <3>3. CloseEpoch(u) \/ UNCHANGED epoch
      BY <2>12 DEF ForceLogout
    <3> QED BY <1>e, <3>2, <3>3
  <2>13. ASSUME NEW a \in Users, NEW u \in Users, NEW f \in DOMAIN token, NEW s \in Statuses,
                UpdateStatus(a, f, u, s)
         PROVE  Grows
    BY <2>13, <1>v, SMTT(30) DEF UpdateStatus, CloseEpoch, TypeOK, Account
  <2>14. ASSUME NEW t \in DOMAIN token, Refresh(t) \/ Logout(t) \/ TokenExpires(t)
         PROVE  Grows
    BY <1>u, <2>14 DEF Refresh, Logout, TokenExpires
  <2>17. ASSUME NEW c \in DOMAIN code, CodeStep(c)
         PROVE  Grows
    BY <1>u, <2>17 DEF CodeStep, CodeExpires, CodeLeavesWindow
  <2>18. ASSUME NEW b \in BOOLEAN, SetTenantActive(b)
         PROVE  Grows
    BY <1>u, <2>18 DEF SetTenantActive
  <2>1. ASSUME NEW r \in Requests, NEW u \in Users,
               \/ Login(r, u)
               \/ RequestOtpLogin(r, u)
               \/ \E c \in DOMAIN code : VerifyOtpLogin(r, u, c)
               \/ RequestPasswordRecovery(r, u)
               \/ \E f \in DOMAIN token : RequestMfaSetup(r, u, f)
        PROVE  Grows
    BY <2>1, <1>u, ReadsBegin
  <2> HIDE DEF Grows
  <2>20. Grows
    BY <1>1, <2>1, <2>2, <2>3, <2>4, <2>5, <2>6, <2>7, <2>8, <2>9, <2>10, <2>11, <2>12,
       <2>13, <2>14, <2>17, <2>18, Zenon DEF Operations
  <2> QED BY <2>20 DEF Grows
<1> QED BY <1>0, <1>1, NextIsOperations DEF Grows

\* A slot keeps its request, is answered, or takes one whose snapshot is read now.
RequestsStep ==
  \A r \in Requests :
    \/ req'[r] = req[r]
    \/ req'[r] = Idle
    \/ \E u \in Users : /\ req'[r].user = u /\ req'[r].cred = Cred(u) /\ req'[r].epoch = epoch[u]
                        /\ acct' = acct /\ epoch' = epoch

LEMMA EveryStepIsRequestsStep == TypeOK /\ [Next]_vars => RequestsStep
<1> SUFFICES ASSUME TypeOK, [Next]_vars PROVE RequestsStep
  OBVIOUS
<1>u. UNCHANGED req => RequestsStep
  BY DEF RequestsStep
<1>a. ASSUME NEW r \in Requests, Answer(r) PROVE RequestsStep
  BY <1>a DEF Answer, RequestsStep, TypeOK
<1>b. ASSUME NEW r \in Requests, NEW u \in Users, Beginning(r, u) PROVE RequestsStep
  <2>1. PICK step \in Steps, p \in Purposes, f \in Nat, c \in Nat : Begin(r, step, u, p, f, c)
    BY <1>b DEF Beginning
  <2>2. /\ req'[r].user = u /\ req'[r].cred = Cred(u) /\ req'[r].epoch = epoch[u]
        /\ acct' = acct /\ epoch' = epoch
        /\ \A q \in Requests \ {r} : req'[q] = req[q]
    BY <2>1 DEF Begin, TypeOK
  <2> QED BY <2>2 DEF RequestsStep
<1>0. CASE UNCHANGED vars
  BY <1>0, <1>u DEF vars
<1>1. CASE Operations
  <2>2. ASSUME NEW r \in Requests,
               \/ RecordFailedPasswordLogin(r)
               \/ CompleteAuthenticatedSession(r)
               \/ IssueOtpEmail(r)
        PROVE  Answer(r)
    BY <2>2 DEF RecordFailedPasswordLogin, CompleteAuthenticatedSession, IssueOtpEmail, Reject
  <2>3. ASSUME NEW u \in Users, NEW f \in DOMAIN token,
               \/ \E c \in DOMAIN code : ConfirmPasswordRecovery(u, c)
               \/ \E c \in DOMAIN code, m \in AuthMethods : ConfirmMfaSetup(u, f, c, m)
               \/ \E b \in BOOLEAN : ChangePassword(u, f, b)
               \/ \E t \in DOMAIN token : RevokeSession(u, f, t)
               \/ RevokeOtherSessions(u, f)
        PROVE  UNCHANGED req
    BY <2>3 DEF ConfirmPasswordRecovery, ConfirmMfaSetup, ChangePassword, RevokeSession,
                RevokeOtherSessions
  <2>4. ASSUME NEW u \in Users, (\E c \in DOMAIN code : ConfirmPasswordRecovery(u, c))
                                 \/ LockExpires(u)
        PROVE  UNCHANGED req
    BY <2>4 DEF ConfirmPasswordRecovery, LockExpires
  <2>5. ASSUME NEW a \in Users, NEW u \in Users, NEW f \in DOMAIN token,
               \/ \E b \in BOOLEAN : ResetPassword(a, f, u, b)
               \/ ForceLogout(a, f, u)
               \/ \E s \in Statuses : UpdateStatus(a, f, u, s)
        PROVE  UNCHANGED req
    BY <2>5 DEF ResetPassword, ForceLogout, UpdateStatus
  <2>6. ASSUME NEW t \in DOMAIN token, Refresh(t) \/ Logout(t) \/ TokenExpires(t)
        PROVE  UNCHANGED req
    BY <2>6 DEF Refresh, Logout, TokenExpires
  <2>7. ASSUME NEW c \in DOMAIN code, CodeStep(c)
        PROVE  UNCHANGED req
    BY <2>7 DEF CodeStep, CodeExpires, CodeLeavesWindow
  <2>8. ASSUME NEW b \in BOOLEAN, SetTenantActive(b)
        PROVE  UNCHANGED req
    BY <2>8 DEF SetTenantActive
  <2> QED BY <1>1, <1>u, <1>a, <1>b, <2>2, <2>3, <2>4, <2>5, <2>6, <2>7, <2>8, ReadsBegin
          DEF Operations
<1> QED BY <1>0, <1>1, NextIsOperations

-----------------------------------------------------------------------------
(* The inductive invariant of the sessions *)

\* OneUnrevokedTokenPerFamily needs that a new family is unused, hence named by
\* its row; SessionsProvedInEpoch needs that a request proves no other epoch.
SessionInv ==
  /\ TypeOK
  /\ FamiliesNamedByRows
  /\ RequestsCurrent
  /\ OneUnrevokedTokenPerFamily
  /\ SessionsProvedInEpoch
  /\ ClosedAccountHasNoSession

LEMMA SessionInit == Init => SessionInv
<1> SUFFICES ASSUME Init PROVE SessionInv
  OBVIOUS
<1>1. TypeOK
  BY TypeInit
<1>2. DOMAIN token = {}
  BY DEF Init
<1>3. RequestsCurrent
  BY DEF Init, RequestsCurrent
<1> QED BY <1>1, <1>2, <1>3 DEF SessionInv, FamiliesNamedByRows, OneUnrevokedTokenPerFamily,
                                SessionsProvedInEpoch, ClosedAccountHasNoSession

\* The numbers and columns of the rows after a step.
LEMMA NextRows ==
  ASSUME TypeOK, TypeOK', NEW t \in DOMAIN token'
  PROVE  /\ token'[t].owner \in Users /\ token'[t].family \in Nat
         /\ t \in Nat /\ t <= Len(token') /\ Len(token') \in Nat /\ Len(token) \in Nat
         /\ t \in DOMAIN token <=> t <= Len(token)
<1>1. /\ token' \in [1..Len(token') -> Token] /\ Len(token') \in Nat
      /\ DOMAIN token' = 1..Len(token')
  BY LenProperties DEF TypeOK
<1>2. /\ Len(token) \in Nat /\ DOMAIN token = 1..Len(token)
  BY LenProperties DEF TypeOK
<1> QED BY <1>1, <1>2 DEF Token

LEMMA FamiliesStep ==
  ASSUME TypeOK, TypeOK', RowStep, FamiliesNamedByRows
  PROVE  FamiliesNamedByRows'
<1> SUFFICES ASSUME NEW t \in DOMAIN token' PROVE token'[t].family <= Len(token')
  BY DEF FamiliesNamedByRows
<1>1. \A s \in DOMAIN token : token[s].family <= Len(token')
  <2> SUFFICES ASSUME NEW s \in DOMAIN token PROVE token[s].family <= Len(token')
    OBVIOUS
  <2>1. token[s].family <= Len(token) /\ token[s].family \in Nat
    BY RowType DEF FamiliesNamedByRows
  <2>2. Len(token) \in Nat /\ Len(token') \in Nat
    BY NextRows
  <2>3. Len(token) <= Len(token')
    <3>1. CASE Len(token) = 0
      BY <2>2, <3>1
    <3>2. CASE Len(token) # 0
      <4>1. Len(token) \in DOMAIN token
        BY <2>2, <3>2, LenProperties DEF TypeOK
      <4>2. Len(token) \in DOMAIN token'
        BY <4>1 DEF RowStep, KeptRows
      <4> QED BY <4>2, NextRows
    <3> QED BY <3>1, <3>2
  <2> QED BY <2>1, <2>2, <2>3
<1>2. CASE t \in DOMAIN token
  BY <1>1, <1>2 DEF RowStep, KeptRows
<1>3. CASE t \notin DOMAIN token
  BY <1>1, <1>3, NextRows DEF RowStep, NewRows
<1> QED BY <1>2, <1>3

LEMMA RequestsCurrentStep ==
  ASSUME TypeOK, VersionsGrow, RequestsStep, RequestsCurrent, TypeOK'
  PROVE  RequestsCurrent'
<1> SUFFICES ASSUME NEW r \in Requests, req'[r] # Idle
             PROVE  /\ req'[r].cred.ver <= acct'[req'[r].user].ver
                    /\ req'[r].cred.ver = acct'[req'[r].user].ver =>
                         req'[r].epoch = epoch'[req'[r].user]
  BY DEF RequestsCurrent
<1>1. CASE req'[r] = req[r]
  <2>1. req[r] \in Request
    BY <1>1 DEF TypeOK
  <2>2. req[r].user \in Users /\ req[r].cred.ver \in Nat
    BY <2>1 DEF Request, Credentials
  <2>3. acct[req[r].user].ver \in Nat /\ acct'[req[r].user].ver \in Nat
    BY <2>2 DEF TypeOK, Account
  <2>4. /\ req[r].cred.ver <= acct[req[r].user].ver
        /\ req[r].cred.ver = acct[req[r].user].ver => req[r].epoch = epoch[req[r].user]
    BY <1>1 DEF RequestsCurrent
  <2>5. /\ acct'[req[r].user].ver >= acct[req[r].user].ver
        /\ epoch'[req[r].user] # epoch[req[r].user] =>
             acct'[req[r].user].ver > acct[req[r].user].ver
    BY <2>2 DEF VersionsGrow
  <2> QED BY <1>1, <2>2, <2>3, <2>4, <2>5
<1>2. CASE \E u \in Users : /\ req'[r].user = u /\ req'[r].cred = Cred(u)
                            /\ req'[r].epoch = epoch[u] /\ acct' = acct /\ epoch' = epoch
  <2>1. PICK u \in Users : /\ req'[r].user = u /\ req'[r].cred = Cred(u)
                           /\ req'[r].epoch = epoch[u] /\ acct' = acct /\ epoch' = epoch
    BY <1>2
  <2>2. acct[u].ver \in Nat
    BY DEF TypeOK, Account
  <2> QED BY <2>1, <2>2 DEF Cred
<1> QED BY <1>1, <1>2 DEF RequestsStep

LEMMA OneUnrevokedStep ==
  ASSUME TypeOK, TypeOK', RowStep, FamiliesNamedByRows, OneUnrevokedTokenPerFamily
  PROVE  OneUnrevokedTokenPerFamily'
<1> DEFINE Unrevoked(t) == token'[t].st # "revoked"
<1> SUFFICES ASSUME NEW s \in DOMAIN token', NEW t \in DOMAIN token',
                    token'[s].family = token'[t].family, Unrevoked(s), Unrevoked(t)
             PROVE  s = t
  BY DEF OneUnrevokedTokenPerFamily
<1>1. ASSUME NEW x \in DOMAIN token, NEW y \in DOMAIN token' \ DOMAIN token,
             token'[x].family = token'[y].family, Unrevoked(x), Unrevoked(y)
      PROVE  FALSE
  <2>1. token'[x].family = token[x].family /\ token[x].st # "revoked"
    BY <1>1 DEF RowStep, KeptRows
  <2>2. token[x].family <= Len(token) /\ token[x].family \in Nat /\ Len(token) \in Nat
    BY RowType DEF FamiliesNamedByRows
  <2>3. y = Len(token) + 1
    BY DEF RowStep, NewRows
  <2>4. CASE token'[y].family = y
    <3>1. token[x].family = Len(token) + 1
      BY <1>1, <2>1, <2>3, <2>4, Zenon
    <3> QED BY <2>2, <3>1
  <2>5. CASE \E z \in DOMAIN token : /\ token[z].st = "live" /\ token'[z].st = "revoked"
                                     /\ token'[y].family = token[z].family
    <3>1. PICK z \in DOMAIN token : /\ token[z].st = "live" /\ token'[z].st = "revoked"
                                    /\ token'[y].family = token[z].family
      BY <2>5
    <3>2. x = z
      BY <1>1, <2>1, <3>1 DEF OneUnrevokedTokenPerFamily
    <3> QED BY <1>1, <3>1, <3>2
  <2> QED BY <2>4, <2>5 DEF RowStep, NewRows
<1>2. CASE s \in DOMAIN token /\ t \in DOMAIN token
  BY <1>2 DEF RowStep, KeptRows, OneUnrevokedTokenPerFamily
<1>3. CASE s \notin DOMAIN token /\ t \notin DOMAIN token
  BY <1>3 DEF RowStep, NewRows
<1> HIDE DEF Unrevoked
<1> QED BY <1>1, <1>2, <1>3

LEMMA ProvedInEpochStep ==
  ASSUME TypeOK, TypeOK', RowStep, RequestsCurrent, SessionsProvedInEpoch
  PROVE  SessionsProvedInEpoch'
<1> SUFFICES ASSUME NEW t \in DOMAIN token', token'[t].st # "revoked"
             PROVE  token'[t].proof = epoch'[token'[t].owner]
  BY DEF SessionsProvedInEpoch
<1>1. CASE t \in DOMAIN token
  BY <1>1 DEF RowStep, KeptRows, SessionsProvedInEpoch
<1>2. CASE t \notin DOMAIN token
  <2>1. epoch' = epoch
    BY <1>2 DEF RowStep, NewRows
  <2>2. ASSUME NEW r \in Requests, req[r] \in Request, req[r] # Idle,
               token'[t].owner = req[r].user, token'[t].proof = req[r].epoch,
               CredentialsUnchanged(r)
        PROVE  token'[t].proof = epoch'[token'[t].owner]
    <3>1. req[r].cred.ver = acct[req[r].user].ver
      BY <2>2 DEF CredentialsUnchanged, Cred
    <3> QED BY <2>1, <2>2, <3>1 DEF RequestsCurrent
  <2>3. ASSUME NEW s \in DOMAIN token, token[s].st = "live",
               token'[t].owner = token[s].owner, token'[t].proof = token[s].proof
        PROVE  token'[t].proof = epoch'[token'[t].owner]
    BY <2>1, <2>3 DEF SessionsProvedInEpoch
  <2> QED BY <1>2, <2>2, <2>3 DEF RowStep, NewRows
<1> QED BY <1>1, <1>2

LEMMA ClosedAccountStep ==
  ASSUME TypeOK, TypeOK', RowStep, ClosedAccountHasNoSession
  PROVE  ClosedAccountHasNoSession'
<1> SUFFICES ASSUME NEW t \in DOMAIN token', token'[t].st # "revoked"
             PROVE  /\ ~acct'[token'[t].owner].locked
                    /\ acct'[token'[t].owner].status = "ACTIVE"
  BY DEF ClosedAccountHasNoSession
<1>1. CASE t \in DOMAIN token
  <2>1. /\ token'[t].owner = token[t].owner /\ token[t].st # "revoked"
        /\ Open(acct[token[t].owner]) => Open(acct'[token[t].owner])
    BY <1>1 DEF RowStep, KeptRows
  <2>2. Open(acct[token[t].owner])
    BY <1>1, <2>1 DEF ClosedAccountHasNoSession, Open
  <2> QED BY <2>1, <2>2 DEF Open
<1>2. CASE t \notin DOMAIN token
  <2>1. Open(acct'[token'[t].owner])
    BY <1>2 DEF RowStep, NewRows
  <2> QED BY <2>1 DEF Open
<1> QED BY <1>1, <1>2

LEMMA SessionStep == SessionInv /\ [Next]_vars => SessionInv'
<1> SUFFICES ASSUME SessionInv, [Next]_vars PROVE SessionInv'
  OBVIOUS
<1>1. TypeOK /\ TypeOK'
  BY TypeStep DEF SessionInv
<1>2. RowStep /\ VersionsGrow /\ RequestsStep
  BY <1>1, EveryStepIsRowStep, VersionStep, EveryStepIsRequestsStep
<1> QED BY <1>1, <1>2, FamiliesStep, RequestsCurrentStep, OneUnrevokedStep, ProvedInEpochStep,
           ClosedAccountStep DEF SessionInv

\* Every reachable state satisfies the inductive invariant.
THEOREM SessionInvariant == Spec => []SessionInv
<1>1. Init => SessionInv
  BY SessionInit
<1>2. SessionInv /\ [Next]_vars => SessionInv'
  BY SessionStep
<1> QED BY <1>1, <1>2, PTL DEF Spec

\* For any number of accounts, requests and tokens, a session has at most one
\* usable refresh token (refresh and revocation in AuthService).
THEOREM RotationIsExclusive == Spec => []OneUnrevokedTokenPerFamily
<1>1. SessionInv => OneUnrevokedTokenPerFamily
  BY DEF SessionInv
<1> QED BY <1>1, SessionInvariant, PTL

\* A sign-in that was checked before an event that ends all sessions never
\* commits after it (the re-check of authVersion under the account lock).
THEOREM SessionsAreProved == Spec => []SessionsProvedInEpoch
<1>1. SessionInv => SessionsProvedInEpoch
  BY DEF SessionInv
<1> QED BY <1>1, SessionInvariant, PTL

\* A locked or suspended account has no session left.
THEOREM ClosingEndsSessions == Spec => []ClosedAccountHasNoSession
<1>1. SessionInv => ClosedAccountHasNoSession
  BY DEF SessionInv
<1> QED BY <1>1, SessionInvariant, PTL

\* Ended sessions stay ended: by no step does a family without a live row get one.
THEOREM EndingIsFinal == Spec => EndedSessionStaysEnded
<1> DEFINE Final == \A t \in DOMAIN token :
                      Live(token[t].owner, token[t].family) = {} =>
                        Live(token[t].owner, token[t].family)' = {}
<1>1. ASSUME SessionInv, [Next]_vars PROVE [Final]_vars
  <2>1. TypeOK /\ TypeOK' /\ RowStep
    BY <1>1, TypeStep, EveryStepIsRowStep DEF SessionInv
  <2>2. ASSUME NEW t \in DOMAIN token, NEW x \in DOMAIN token',
               token'[x].owner = token'[t].owner, token'[x].family = token'[t].family,
               token'[x].st = "live"
        PROVE  \E y \in DOMAIN token : /\ token[y].owner = token[t].owner
                                       /\ token[y].family = token[t].family
                                       /\ token[y].st = "live"
    <3>1. token'[t].owner = token[t].owner /\ token'[t].family = token[t].family
      BY <2>1 DEF RowStep, KeptRows
    <3>2. CASE x \in DOMAIN token
      BY <2>1, <2>2, <3>1, <3>2 DEF RowStep, KeptRows
    <3>3. CASE x \notin DOMAIN token
      <4>1. x = Len(token) + 1
        BY <2>1, <3>3 DEF RowStep, NewRows
      <4>2. /\ token[t].family \in Nat /\ Len(token) \in Nat
            /\ token[t].family <= Len(token)
        BY <1>1, <2>1, RowType DEF SessionInv, FamiliesNamedByRows
      <4>3. token'[x].family # x
        BY <2>2, <3>1, <4>1, <4>2
      <4> QED BY <2>1, <2>2, <3>1, <3>3, <4>3 DEF RowStep, NewRows
    <3> QED BY <3>2, <3>3
  <2>3. Final
    BY <2>2 DEF Live
  <2> QED BY <2>3
<1>2. Final => \A t \in DOMAIN token :
                 LET u == token[t].owner
                     f == token[t].family
                 IN  Live(u, f) = {} => Live(u, f)' = {}
  OBVIOUS
<1> QED BY <1>1, SessionInvariant, PTL DEF Spec, EndedSessionStaysEnded

-----------------------------------------------------------------------------
(* The accounts and the one-time codes *)

\* A step leaves standing and lock of an account alone, with two exceptions: a
\* status changes to ACTIVE or leaves another owner active, and a lock is set by a
\* failed attempt whose snapshot is current.
AccountMoves ==
  \A v \in Users :
    /\ \/ acct'[v].status = acct[v].status
       \/ acct'[v].status = "ACTIVE"
       \/ v \in Owners =>
            \E o \in Owners \ {v} : acct[o].status = "ACTIVE" /\ acct'[o].status = "ACTIVE"
    /\ ~acct[v].locked /\ acct'[v].locked =>
         \E r \in Requests : /\ req[r] # Idle /\ req[r].user = v /\ req[r].cred = Cred(v)
                             /\ req[r].step = "fail" /\ req'[r] = Idle

LEMMA EveryStepIsAccountMove == TypeOK /\ [Next]_vars => AccountMoves
<1> SUFFICES ASSUME TypeOK, [Next]_vars PROVE AccountMoves
  OBVIOUS
<1> USE ConstantsAssumption
<1> DEFINE Quiet == \A v \in Users : /\ acct'[v].status = acct[v].status
                                     /\ acct'[v].locked => acct[v].locked
<1>q. Quiet => AccountMoves
  BY DEF AccountMoves
<1>u. UNCHANGED acct => AccountMoves
  BY DEF AccountMoves
<1>t. \A v \in Users : acct[v] \in Account
  BY DEF TypeOK
<1>0. CASE UNCHANGED vars
  BY <1>0, <1>u DEF vars
<1>1. CASE Operations
  <2>1. ASSUME NEW r \in Requests, NEW u \in Users,
               \/ Login(r, u)
               \/ RequestOtpLogin(r, u)
               \/ \E c \in DOMAIN code : VerifyOtpLogin(r, u, c)
               \/ RequestPasswordRecovery(r, u)
               \/ \E f \in DOMAIN token : RequestMfaSetup(r, u, f)
        PROVE  AccountMoves
    BY <2>1, <1>u, ReadsBegin
  <2>2. ASSUME NEW r \in Requests, RecordFailedPasswordLogin(r)
        PROVE  AccountMoves
    <3>1. req[r] \in Request /\ req[r] # Idle /\ req[r].user \in Users /\ req[r].step = "fail"
      BY <2>2, DueRequest DEF RecordFailedPasswordLogin, Steps, Request
    <3>2. CASE Reject(r)
      BY <3>2, <1>u DEF Reject
    <3>3. CASE ~Reject(r)
      <4>1. PICK n, b : acct' = [acct EXCEPT ![req[r].user].fails = n, ![req[r].user].locked = b]
        BY <2>2, <3>3 DEF RecordFailedPasswordLogin
      <4>2. CredentialsUnchanged(r) /\ Answer(r)
        BY <2>2, <3>3 DEF RecordFailedPasswordLogin
      <4>3. req[r].cred = Cred(req[r].user) /\ req'[r] = Idle
        BY <4>2 DEF CredentialsUnchanged, Answer, TypeOK
      <4>4. \A v \in Users : /\ acct'[v].status = acct[v].status
                             /\ v # req[r].user => acct'[v] = acct[v]
        BY <3>1, <4>1, <1>t DEF Account, TypeOK
      <4> QED BY <3>1, <4>3, <4>4 DEF AccountMoves
    <3> QED BY <3>2, <3>3
  <2>3. ASSUME NEW r \in Requests, CompleteAuthenticatedSession(r)
        PROVE  AccountMoves
    <3>1. req[r].user \in Users
      BY <2>3, DueRequest DEF CompleteAuthenticatedSession, Steps, Request
    <3>2. CASE Reject(r)
      BY <3>2, <1>u DEF Reject
    <3>3. CASE ~Reject(r)
      <4>1. acct' = [acct EXCEPT ![req[r].user].fails = 0, ![req[r].user].locked = FALSE]
        BY <2>3, <3>3 DEF CompleteAuthenticatedSession
      <4> QED BY <3>1, <4>1, <1>t, <1>q DEF TypeOK, Account
    <3> QED BY <3>2, <3>3
  <2>4. ASSUME NEW r \in Requests, IssueOtpEmail(r)
        PROVE  AccountMoves
    BY <1>u, <2>4 DEF IssueOtpEmail, Reject
  <2>5. ASSUME NEW u \in Users, NEW c \in DOMAIN code, ConfirmPasswordRecovery(u, c)
        PROVE  Quiet
    BY <2>5, <1>t DEF ConfirmPasswordRecovery, TypeOK, Account
  <2>6. ASSUME NEW u \in Users, NEW f \in DOMAIN token, NEW c \in DOMAIN code,
               NEW m \in AuthMethods, ConfirmMfaSetup(u, f, c, m)
        PROVE  Quiet
    BY <2>6, <1>t DEF ConfirmMfaSetup, TypeOK, Account
  <2>7. ASSUME NEW u \in Users, NEW f \in DOMAIN token, NEW b \in BOOLEAN,
               ChangePassword(u, f, b)
        PROVE  Quiet
    BY <2>7, <1>t DEF ChangePassword, TypeOK, Account
  <2>8. ASSUME NEW u \in Users, NEW f \in DOMAIN token, NEW t \in DOMAIN token,
               RevokeSession(u, f, t)
        PROVE  AccountMoves
    BY <1>u, <2>8 DEF RevokeSession
  <2>9. ASSUME NEW u \in Users, NEW f \in DOMAIN token, RevokeOtherSessions(u, f)
        PROVE  AccountMoves
    BY <1>u, <2>9 DEF RevokeOtherSessions
  <2>10. ASSUME NEW u \in Users, LockExpires(u)
         PROVE  Quiet
    BY <2>10, <1>t DEF LockExpires, TypeOK, Account
  <2>11. ASSUME NEW a \in Users, NEW u \in Users, NEW f \in DOMAIN token, NEW b \in BOOLEAN,
                ResetPassword(a, f, u, b)
         PROVE  Quiet
    BY <2>11, <1>t, SMTT(30) DEF ResetPassword, TypeOK, Account
  <2>12. ASSUME NEW a \in Users, NEW u \in Users, NEW f \in DOMAIN token, ForceLogout(a, f, u)
         PROVE  Quiet
    BY <2>12, <1>t DEF ForceLogout, TypeOK, Account
  <2>13. ASSUME NEW a \in Users, NEW u \in Users, NEW f \in DOMAIN token, NEW s \in Statuses,
                UpdateStatus(a, f, u, s)
         PROVE  AccountMoves
    <3>1. PICK n : acct' = [acct EXCEPT ![u].status = s, ![u].ver = n]
      BY <2>13 DEF UpdateStatus
    <3>2. \A v \in Users : /\ acct'[v].status = IF v = u THEN s ELSE acct[v].status
                           /\ acct'[v].locked = acct[v].locked
      BY <3>1, <1>t DEF Account, TypeOK
    <3>3. s # "ACTIVE" /\ acct[u].status = "ACTIVE" /\ u \in Owners =>
            \E o \in Owners \ {u} : acct[o].status = "ACTIVE"
      BY <2>13 DEF UpdateStatus, OtherActiveOwner
    <3>4. acct[u].status \in {"ACTIVE", "SUSPENDED"} /\ s \in {"ACTIVE", "SUSPENDED"}
      BY <1>t DEF Account, Statuses
    <3> QED BY <3>2, <3>3, <3>4 DEF AccountMoves
  <2>14. ASSUME NEW t \in DOMAIN token, Refresh(t) \/ Logout(t) \/ TokenExpires(t)
         PROVE  AccountMoves
    BY <1>u, <2>14 DEF Refresh, Logout, TokenExpires
  <2>17. ASSUME NEW c \in DOMAIN code, CodeStep(c)
         PROVE  AccountMoves
    BY <1>u, <2>17 DEF CodeStep, CodeExpires, CodeLeavesWindow
  <2>18. ASSUME NEW b \in BOOLEAN, SetTenantActive(b)
         PROVE  AccountMoves
    BY <1>u, <2>18 DEF SetTenantActive
  <2> HIDE DEF Quiet
  <2> QED
    BY <1>1, <1>q, <2>1, <2>2, <2>3, <2>4, <2>5, <2>6, <2>7, <2>8, <2>9, <2>10, <2>11, <2>12,
       <2>13, <2>14, <2>17, <2>18, Zenon DEF Operations
<1> QED BY <1>0, <1>1, NextIsOperations

\* However administrators of the same rank deactivate each other, the school
\* keeps an active School Configuration Owner.
THEOREM AnOwnerRemains == Spec => []SomeOwnerActive
<1>1. Init => SomeOwnerActive
  BY ConstantsAssumption DEF Init, SomeOwnerActive
<1>2. TypeOK /\ SomeOwnerActive /\ [Next]_vars => SomeOwnerActive'
  BY EveryStepIsAccountMove, ConstantsAssumption DEF AccountMoves, SomeOwnerActive
<1> QED BY <1>1, <1>2, TypeInit, TypeStep, PTL DEF Spec

\* Attempts against an old password cannot lock an account: a lock is set by a
\* request that saw the credentials in force.
THEOREM LocksAreCurrent == Spec => LockoutUsesCurrentCredentials
<1>1. TypeOK /\ [Next]_vars =>
        [\A u \in Users :
           ~acct[u].locked /\ acct'[u].locked =>
             \E r \in Requests : req[r] # Idle /\ req[r].user = u /\ req[r].cred = Cred(u)
                                 /\ req[r].step = "fail" /\ req'[r] = Idle]_vars
  BY EveryStepIsAccountMove DEF AccountMoves
<1> QED BY <1>1, TypeInit, TypeStep, PTL DEF Spec, LockoutUsesCurrentCredentials

\* Old codes keep their columns, only become used, and an unused code of an active
\* account sees neither its standing nor its authVersion change.
KeptCodes ==
  \A c \in DOMAIN code :
    /\ c \in DOMAIN code'
    /\ code'[c].owner = code[c].owner
    /\ code'[c].purpose = code[c].purpose
    /\ code'[c].ver = code[c].ver
    /\ code'[c].st # "used" =>
         /\ code[c].st # "used"
         /\ acct[code[c].owner].status = "ACTIVE" =>
              /\ acct'[code[c].owner].status = "ACTIVE"
              /\ acct'[code[c].owner].ver = acct[code[c].owner].ver

\* A new code is issued under the authVersion of an active account, and is then
\* the only unused one for its purpose.
NewCodes ==
  \A c \in DOMAIN code' \ DOMAIN code :
    /\ c = Len(code) + 1
    /\ acct'[code'[c].owner].status = "ACTIVE"
    /\ code'[c].ver = acct'[code'[c].owner].ver
    /\ \A d \in DOMAIN code :
         /\ code'[d].owner = code'[c].owner /\ code'[d].purpose = code'[c].purpose
         => code'[d].st = "used"

CodesMove == KeptCodes /\ NewCodes

LEMMA CodeType ==
  ASSUME TypeOK, NEW c \in DOMAIN code
  PROVE  code[c] \in Code /\ code[c].owner \in Users
<1>1. code \in [1..Len(code) -> Code] /\ Len(code) \in Nat /\ DOMAIN code = 1..Len(code)
  BY LenProperties DEF TypeOK
<1> QED BY <1>1 DEF Code

\* Spending codes, while no active account changes standing or authVersion.
Standing(v) == acct[v].status = "ACTIVE" =>
                 acct'[v].status = "ACTIVE" /\ acct'[v].ver = acct[v].ver

LEMMA SomeUsed ==
  ASSUME TypeOK, code' = code \/ \E S : code' = Used(S), \A v \in Users : Standing(v)
  PROVE  CodesMove
<1>1. CASE code' = code
  BY <1>1, CodeType DEF CodesMove, KeptCodes, NewCodes, Standing
<1>2. ASSUME NEW S, code' = Used(S) PROVE CodesMove
  <2>1. /\ DOMAIN code' = DOMAIN code
        /\ \A c \in DOMAIN code :
             code'[c] = IF c \in S THEN [code[c] EXCEPT !.st = "used"] ELSE code[c]
    BY <1>2, UsedRows DEF TypeOK
  <2>2. ASSUME NEW c \in DOMAIN code
        PROVE  /\ code'[c].owner = code[c].owner /\ code'[c].purpose = code[c].purpose
               /\ code'[c].ver = code[c].ver
               /\ code'[c].st # "used" => code'[c].st = code[c].st
    BY <2>1, CodeType DEF Code
  <2> QED BY <2>1, <2>2, CodeType DEF CodesMove, KeptCodes, NewCodes, Standing
<1> QED BY <1>1, <1>2

\* Spending every code of u, whose row may change in any way.
LEMMA AllUsed ==
  ASSUME TypeOK, NEW u \in Users, code' = Used(UnusedOf(u)),
         \A v \in Users \ {u} : acct'[v] = acct[v]
  PROVE  CodesMove
<1>1. /\ DOMAIN code' = DOMAIN code
      /\ \A c \in DOMAIN code :
           code'[c] = IF c \in UnusedOf(u) THEN [code[c] EXCEPT !.st = "used"] ELSE code[c]
  BY UsedRows DEF TypeOK
<1>2. ASSUME NEW c \in DOMAIN code
      PROVE  /\ code'[c].owner = code[c].owner /\ code'[c].purpose = code[c].purpose
             /\ code'[c].ver = code[c].ver
             /\ code'[c].st # "used" => code'[c].st = code[c].st /\ code[c].owner # u
  BY <1>1, CodeType DEF Code, UnusedOf
<1> QED BY <1>1, <1>2, CodeType DEF CodesMove, KeptCodes, NewCodes

\* A code that expires or leaves the window of the issue limit.
LEMMA AgedCodes ==
  ASSUME TypeOK, NEW c \in DOMAIN code, CodeStep(c)
  PROVE  CodesMove
<1>1. /\ acct' = acct
      /\ \/ code[c].st = "unused" /\ code' = [code EXCEPT ![c].st = "expired"]
         \/ code' = [code EXCEPT ![c].recent = FALSE]
  BY DEF CodeStep, CodeExpires, CodeLeavesWindow
<1>2. DOMAIN code' = DOMAIN code
  BY <1>1
<1>3. ASSUME NEW d \in DOMAIN code
      PROVE  /\ code'[d].owner = code[d].owner /\ code'[d].purpose = code[d].purpose
             /\ code'[d].ver = code[d].ver
             /\ code'[d].st # "used" => code[d].st # "used"
  BY <1>1, CodeType DEF Code
<1> QED BY <1>1, <1>2, <1>3, CodeType DEF CodesMove, KeptCodes, NewCodes

\* issueOtpEmail spends the unused codes of the purpose before it adds one.
LEMMA IssuedCode ==
  ASSUME TypeOK, NEW r \in Requests, IssueOtpEmail(r)
  PROVE  CodesMove
<1>1. CASE Reject(r)
  BY <1>1, SomeUsed DEF Reject, Standing
<1>2. CASE ~Reject(r)
  <2>1. PICK u, p, rows, row :
          /\ u = req[r].user /\ p = req[r].purpose
          /\ rows = Used(UnusedFor(u, p))
          /\ row = [owner |-> u, purpose |-> p, st |-> "unused", recent |-> TRUE,
                    ver |-> acct[u].ver]
          /\ code' = Append(rows, row) /\ acct' = acct /\ acct[u].status = "ACTIVE"
    BY <1>2 DEF IssueOtpEmail, InvalidatedActiveOtps, CanAuthenticate
  <2>2. u \in Users /\ p \in Purposes
    BY <2>1, DueRequest DEF IssueOtpEmail, Steps, Request
  <2>3. row \in Code
    BY <2>1, <2>2 DEF Code, TypeOK, Account
  <2>4. /\ rows \in Seq(Code) /\ Len(rows) = Len(code) /\ DOMAIN rows = DOMAIN code
        /\ \A c \in DOMAIN code :
             rows[c] = IF c \in UnusedFor(u, p) THEN [code[c] EXCEPT !.st = "used"] ELSE code[c]
    BY <2>1, UsedRows DEF TypeOK
  <2>5. /\ DOMAIN code' = DOMAIN code \cup {Len(code) + 1}
        /\ \A c \in DOMAIN code : code'[c] = rows[c]
        /\ code'[Len(code) + 1] = row
    BY <2>1, <2>3, <2>4, Appended
  <2>6. ASSUME NEW c \in DOMAIN code
        PROVE  /\ code'[c].owner = code[c].owner /\ code'[c].purpose = code[c].purpose
               /\ code'[c].ver = code[c].ver
               /\ code'[c].st # "used" => /\ code'[c].st = code[c].st
                                          /\ ~(code[c].owner = u /\ code[c].purpose = p)
    BY <2>4, <2>5, CodeType DEF Code, UnusedFor, UnusedOf
  <2>7. row.owner = u /\ row.purpose = p /\ row.ver = acct[u].ver
    BY <2>1
  <2>8. KeptCodes
    BY <2>1, <2>5, <2>6 DEF KeptCodes
  <2>9. NewCodes
    <3>1. ASSUME NEW c \in DOMAIN code' \ DOMAIN code
          PROVE  /\ c = Len(code) + 1 /\ code'[c].owner = u /\ code'[c].purpose = p
                 /\ code'[c].ver = acct[u].ver
      BY <2>5, <2>7, <3>1
    <3>2. \A d \in DOMAIN code :
            code'[d].owner = u /\ code'[d].purpose = p => code'[d].st = "used"
      BY <2>6
    <3>3. acct'[u].status = "ACTIVE" /\ acct'[u].ver = acct[u].ver
      BY <2>1
    <3> QED BY <3>1, <3>2, <3>3 DEF NewCodes
  <2> QED BY <2>8, <2>9 DEF CodesMove
<1> QED BY <1>1, <1>2

LEMMA EveryStepIsCodesMove == TypeOK /\ [Next]_vars => CodesMove
<1> SUFFICES ASSUME TypeOK, [Next]_vars PROVE CodesMove
  OBVIOUS
<1> DEFINE EndsAll(u) == /\ code' = Used(UnusedOf(u))
                         /\ \A v \in Users \ {u} : acct'[v] = acct[v]
<1>e. ASSUME NEW u \in Users, EndsAll(u) PROVE CodesMove
  BY <1>e, AllUsed
<1>u. UNCHANGED <<acct, code>> => CodesMove
  BY SomeUsed DEF Standing
<1>t. \A v \in Users : acct[v] \in Account
  BY DEF TypeOK
<1>0. CASE UNCHANGED vars
  BY <1>0, <1>u DEF vars
<1>1. CASE Operations
  <2>1. ASSUME NEW r \in Requests, NEW u \in Users,
               \/ Login(r, u)
               \/ RequestOtpLogin(r, u)
               \/ \E c \in DOMAIN code : VerifyOtpLogin(r, u, c)
               \/ RequestPasswordRecovery(r, u)
               \/ \E f \in DOMAIN token : RequestMfaSetup(r, u, f)
        PROVE  CodesMove
    BY <2>1, <1>u, ReadsBegin
  <2>2. ASSUME NEW r \in Requests, RecordFailedPasswordLogin(r)
        PROVE  CodesMove
    <3>1. req[r].user \in Users
      BY <2>2, DueRequest DEF RecordFailedPasswordLogin, Steps, Request
    <3>2. CASE Reject(r)
      BY <3>2, <1>u DEF Reject
    <3>3. CASE ~Reject(r)
      <4>1. PICK n, b : acct' = [acct EXCEPT ![req[r].user].fails = n, ![req[r].user].locked = b]
        BY <2>2, <3>3 DEF RecordFailedPasswordLogin
      <4>2. code' = code
        BY <2>2, <3>3 DEF RecordFailedPasswordLogin
      <4>3. \A v \in Users : Standing(v)
        BY <3>1, <4>1, <1>t DEF Standing, Account, TypeOK
      <4> QED BY <4>2, <4>3, SomeUsed
    <3> QED BY <3>2, <3>3
  <2>3. ASSUME NEW r \in Requests, CompleteAuthenticatedSession(r)
        PROVE  CodesMove
    <3>1. req[r].user \in Users
      BY <2>3, DueRequest DEF CompleteAuthenticatedSession, Steps, Request
    <3>2. CASE Reject(r)
      BY <3>2, <1>u DEF Reject
    <3>3. CASE ~Reject(r)
      <4>1. /\ acct' = [acct EXCEPT ![req[r].user].fails = 0, ![req[r].user].locked = FALSE]
            /\ code' = code \/ code' = Used({req[r].code})
        BY <2>3, <3>3 DEF CompleteAuthenticatedSession
      <4>2. \A v \in Users : Standing(v)
        BY <3>1, <4>1, <1>t DEF Standing, Account, TypeOK
      <4> QED BY <4>1, <4>2, SomeUsed
    <3> QED BY <3>2, <3>3
  <2>5. ASSUME NEW u \in Users, NEW c \in DOMAIN code, ConfirmPasswordRecovery(u, c)
        PROVE  EndsAll(u)
    BY <2>5 DEF EndsAll, ConfirmPasswordRecovery, EndAllAccess, TypeOK
  <2>6. ASSUME NEW u \in Users, NEW f \in DOMAIN token, NEW c \in DOMAIN code,
               NEW m \in AuthMethods, ConfirmMfaSetup(u, f, c, m)
        PROVE  EndsAll(u)
    BY <2>6 DEF EndsAll, ConfirmMfaSetup, EndAllAccess, TypeOK
  <2>7. ASSUME NEW u \in Users, NEW f \in DOMAIN token, NEW b \in BOOLEAN,
               ChangePassword(u, f, b)
        PROVE  EndsAll(u)
    BY <2>7 DEF EndsAll, ChangePassword, TypeOK
  <2>8. ASSUME NEW u \in Users, NEW f \in DOMAIN token, NEW t \in DOMAIN token,
               RevokeSession(u, f, t)
        PROVE  CodesMove
    BY <1>u, <2>8 DEF RevokeSession
  <2>9. ASSUME NEW u \in Users, NEW f \in DOMAIN token, RevokeOtherSessions(u, f)
        PROVE  CodesMove
    BY <1>u, <2>9 DEF RevokeOtherSessions
  <2>10. ASSUME NEW u \in Users, LockExpires(u)
         PROVE  CodesMove
    <3>1. acct' = [acct EXCEPT ![u].locked = FALSE] /\ code' = code
      BY <2>10 DEF LockExpires
    <3>2. \A v \in Users : Standing(v)
      BY <3>1, <1>t DEF Standing, Account, TypeOK
    <3> QED BY <3>1, <3>2, SomeUsed
  <2>11. ASSUME NEW a \in Users, NEW u \in Users, NEW f \in DOMAIN token, NEW b \in BOOLEAN,
                ResetPassword(a, f, u, b)
         PROVE  EndsAll(u)
    BY <2>11 DEF EndsAll, ResetPassword, EndAllAccess, TypeOK
  <2>12. ASSUME NEW a \in Users, NEW u \in Users, NEW f \in DOMAIN token, ForceLogout(a, f, u)
         PROVE  EndsAll(u)
    BY <2>12 DEF EndsAll, ForceLogout, EndAllAccess, TypeOK
  <2>13. ASSUME NEW a \in Users, NEW u \in Users, NEW f \in DOMAIN token, NEW s \in Statuses,
                UpdateStatus(a, f, u, s)
         PROVE  CodesMove
    <3>1. CASE s # "ACTIVE"
      <4>1. EndsAll(u)
        BY <2>13, <3>1 DEF EndsAll, UpdateStatus, EndAllAccess, TypeOK
      <4> QED BY <4>1, <1>e
    <3>2. CASE s = "ACTIVE"
      <4>1. /\ code' = code
            /\ acct' = [acct EXCEPT ![u].status = "ACTIVE",
                                    ![u].ver = IF acct[u].status # "ACTIVE" THEN acct[u].ver + 1
                                                                           ELSE acct[u].ver]
        BY <2>13, <3>2 DEF UpdateStatus
      <4>2. \A v \in Users : Standing(v)
        BY <4>1, <1>t DEF Standing, Account, TypeOK
      <4> QED BY <4>1, <4>2, SomeUsed
    <3> QED BY <3>1, <3>2
  <2>14. ASSUME NEW t \in DOMAIN token, Refresh(t) \/ Logout(t) \/ TokenExpires(t)
         PROVE  CodesMove
    BY <1>u, <2>14 DEF Refresh, Logout, TokenExpires
  <2>18. ASSUME NEW b \in BOOLEAN, SetTenantActive(b)
         PROVE  CodesMove
    BY <1>u, <2>18 DEF SetTenantActive
  <2> HIDE DEF EndsAll
  <2> QED
    BY <1>1, <1>e, <2>1, <2>2, <2>3, IssuedCode, <2>5, <2>6, <2>7, <2>8, <2>9, <2>10, <2>11,
       <2>12, <2>13, <2>14, AgedCodes, <2>18 DEF Operations
<1> QED BY <1>0, <1>1, NextIsOperations

\* UnusedCodesAreCurrent is not inductive alone: reactivation raises the
\* authVersion and spends no code, so a suspended account must have none.
CodeInv ==
  /\ TypeOK
  /\ UnusedCodesAreCurrent
  /\ OneUnusedCodePerPurpose
  /\ \A c \in DOMAIN code : code[c].st # "used" => acct[code[c].owner].status = "ACTIVE"

THEOREM CodeInvariant == Spec => []CodeInv
<1>1. Init => CodeInv
  <2>1. Init => DOMAIN code = {}
    BY DEF Init
  <2> QED BY <2>1, TypeInit DEF CodeInv, UnusedCodesAreCurrent, OneUnusedCodePerPurpose
<1>2. ASSUME CodeInv, [Next]_vars PROVE CodeInv'
  <2>1. TypeOK /\ TypeOK' /\ CodesMove
    BY <1>2, TypeStep, EveryStepIsCodesMove DEF CodeInv
  <2>2. ASSUME NEW c \in DOMAIN code', code'[c].st # "used"
        PROVE  /\ acct'[code'[c].owner].status = "ACTIVE"
               /\ code'[c].ver = acct'[code'[c].owner].ver
    <3>1. CASE c \in DOMAIN code
      BY <1>2, <2>1, <2>2, <3>1 DEF CodesMove, KeptCodes, CodeInv, UnusedCodesAreCurrent
    <3>2. CASE c \notin DOMAIN code
      BY <2>1, <3>2 DEF CodesMove, NewCodes
    <3> QED BY <3>1, <3>2
  <2>3. ASSUME NEW c \in DOMAIN code', NEW d \in DOMAIN code',
               code'[c].owner = code'[d].owner, code'[c].purpose = code'[d].purpose,
               code'[c].st # "used", code'[d].st # "used"
        PROVE  c = d
    <3>1. CASE c \in DOMAIN code /\ d \in DOMAIN code
      BY <1>2, <2>1, <2>3, <3>1 DEF CodesMove, KeptCodes, CodeInv, OneUnusedCodePerPurpose
    <3>2. CASE c \notin DOMAIN code \/ d \notin DOMAIN code
      BY <2>1, <2>3, <3>2 DEF CodesMove, NewCodes
    <3> QED BY <3>1, <3>2
  <2>4. UnusedCodesAreCurrent'
    BY <2>2 DEF UnusedCodesAreCurrent
  <2>5. OneUnusedCodePerPurpose'
    BY <2>3 DEF OneUnusedCodePerPurpose
  <2> QED BY <2>1, <2>2, <2>4, <2>5 DEF CodeInv
<1> QED BY <1>1, <1>2, PTL DEF Spec

\* No code of before a change of credentials can be used after it.
THEOREM CodesAreCurrent == Spec => []UnusedCodesAreCurrent
<1>1. CodeInv => UnusedCodesAreCurrent
  BY DEF CodeInv
<1> QED BY <1>1, CodeInvariant, PTL

\* Resending a code replaces the previous one, even when requests race.
THEOREM ResendReplaces == Spec => []OneUnusedCodePerPurpose
<1>1. CodeInv => OneUnusedCodePerPurpose
  BY DEF CodeInv
<1> QED BY <1>1, CodeInvariant, PTL

-----------------------------------------------------------------------------
(* Refinement: every step of the service is a step of SessionContract *)

\* Who is barred depends on the account row alone.
LEMMA BarredIs ==
  ASSUME TypeOK, NEW v \in Users
  PROVE  v \in Barred <=> ~Open(acct[v])
BY DEF Barred, Open, TypeOK, Account

LEMMA BarredNext ==
  ASSUME TypeOK', NEW v \in Users
  PROVE  v \in Barred' <=> ~Open(acct'[v])
BY DEF Barred, Open, TypeOK, Account

\* A session is open while it has a live row.
LEMMA OpenIs ==
  ASSUME NEW s
  PROVE  s \in OpenSessions <=>
           \E t \in DOMAIN token : token[t].st = "live" /\ s = <<token[t].owner, token[t].family>>
BY DEF OpenSessions

LEMMA OpenNext ==
  ASSUME NEW s
  PROVE  s \in OpenSessions' <=>
           \E t \in DOMAIN token' : token'[t].st = "live" /\ s = <<token'[t].owner, token'[t].family>>
BY DEF OpenSessions

LEMMA OpenOnes == OpenSessions \subseteq Sessions
BY DEF OpenSessions, Sessions

\* The rows that a step adds succeed a live row: no session is new.
Successors ==
  \A t \in DOMAIN token' \ DOMAIN token :
    \E s \in DOMAIN token : /\ token[s].st = "live"
                            /\ token'[t].owner = token[s].owner
                            /\ token'[t].family = token[s].family

LEMMA OnlyEnds ==
  ASSUME RowStep, Successors
  PROVE  /\ OpenSessions' \subseteq OpenSessions
         /\ (Sessions \ OpenSessions)' = (Sessions \ OpenSessions) \cup (OpenSessions \ OpenSessions')
<1>1. Sessions' = Sessions
  <2>1. ASSUME NEW s \in Sessions PROVE s \in Sessions'
    <3>1. PICK t \in DOMAIN token : s = <<token[t].owner, token[t].family>>
      BY DEF Sessions
    <3>2. t \in DOMAIN token' /\ s = <<token'[t].owner, token'[t].family>>
      BY <3>1 DEF RowStep, KeptRows
    <3> QED BY <3>2 DEF Sessions
  <2>2. ASSUME NEW s \in Sessions' PROVE s \in Sessions
    <3>1. PICK t \in DOMAIN token' : s = <<token'[t].owner, token'[t].family>>
      BY DEF Sessions
    <3>2. PICK x \in DOMAIN token : token[x].owner = token'[t].owner /\ token[x].family = token'[t].family
      BY DEF RowStep, KeptRows, Successors
    <3> QED BY <3>1, <3>2 DEF Sessions
  <2> QED BY <2>1, <2>2
<1>2. ASSUME NEW s \in OpenSessions' PROVE s \in OpenSessions
  <2>1. PICK t \in DOMAIN token' : token'[t].st = "live" /\ s = <<token'[t].owner, token'[t].family>>
    BY OpenNext
  <2>2. PICK x \in DOMAIN token : /\ token[x].owner = token'[t].owner /\ token[x].family = token'[t].family
                                  /\ token[x].st = "live"
    BY <2>1 DEF RowStep, KeptRows, Successors
  <2> QED BY <2>1, <2>2, OpenIs
<1>3. OpenSessions \subseteq Sessions
  BY OpenOnes
<1> QED BY <1>1, <1>2, <1>3

\* Steps that add no row.
LEMMA NoRowAdded ==
  ASSUME TypeOK, token' = token \/ \E S : token' = Revoked(S)
  PROVE  Successors
<1>1. DOMAIN token' = DOMAIN token
  BY RevokedRows DEF TypeOK
<1> QED BY <1>1 DEF Successors

\* Revoking all rows of an account closes its sessions and no other.
LEMMA AllEnd ==
  ASSUME TypeOK, NEW u \in Users, token' = Revoked(UnrevokedOf(u))
  PROVE  OpenSessions' = OpenSessions \ Promise!Of(u, OpenSessions)
<1>1. /\ DOMAIN token' = DOMAIN token
      /\ \A t \in DOMAIN token :
           token'[t] = IF t \in UnrevokedOf(u) THEN [token[t] EXCEPT !.st = "revoked"]
                                               ELSE token[t]
  BY RevokedRows, SMTT(30) DEF TypeOK
<1>2. ASSUME NEW t \in DOMAIN token
      PROVE  /\ token'[t].owner = token[t].owner /\ token'[t].family = token[t].family
             /\ token'[t].st = "live" <=> token[t].st = "live" /\ token[t].owner # u
  BY <1>1, RowType DEF Token, UnrevokedOf
<1>3. ASSUME NEW s \in OpenSessions' PROVE s \in OpenSessions /\ s \notin Promise!Of(u, OpenSessions)
  <2>1. PICK t \in DOMAIN token : token'[t].st = "live" /\ s = <<token'[t].owner, token'[t].family>>
    BY <1>1, OpenNext
  <2>2. s = <<token[t].owner, token[t].family>> /\ token[t].st = "live" /\ s[1] # u
    BY <1>2, <2>1
  <2> QED BY <2>2, OpenIs DEF Promise!Of
<1>4. ASSUME NEW s \in OpenSessions, s \notin Promise!Of(u, OpenSessions) PROVE s \in OpenSessions'
  <2>1. PICK t \in DOMAIN token : token[t].st = "live" /\ s = <<token[t].owner, token[t].family>>
    BY OpenIs
  <2>2. s[1] = token[t].owner /\ s[1] # u
    BY <1>4, <2>1 DEF Promise!Of
  <2> QED BY <1>1, <1>2, <2>1, <2>2, OpenNext
<1> QED BY <1>3, <1>4

\* A proof stands as long as its request waits and the columns it read remain.
ProofNow(u, r) == req[r].step = "open" /\ req[r].user = u /\ req[r].cred = Cred(u)

LEMMA ProofIs ==
  ASSUME NEW u \in Users, NEW r \in Requests
  PROVE  /\ <<u, r>> \in Proofs <=> ProofNow(u, r)
         /\ <<u, r>> \in Proofs' <=> ProofNow(u, r)'
<1>1. <<u, r>> \in Users \X Requests /\ <<u, r>>[1] = u /\ <<u, r>>[2] = r
  OBVIOUS
<1>2. <<u, r>> \in Proofs <=> req[r].step = "open" /\ req[r].user = u /\ CredentialsUnchanged(r)
  BY <1>1 DEF Proofs
<1>3. <<u, r>> \in Proofs' <=> (req[r].step = "open" /\ req[r].user = u /\ CredentialsUnchanged(r))'
  BY <1>1 DEF Proofs
<1> QED BY <1>2, <1>3 DEF ProofNow, CredentialsUnchanged

\* Two sets of proofs are compared pair by pair.
LEMMA SameProofs ==
  ASSUME NEW P, NEW Q, P \subseteq Users \X Requests, Q \subseteq Users \X Requests,
         \A u \in Users, r \in Requests : <<u, r>> \in P <=> <<u, r>> \in Q
  PROVE  P = Q
<1>1. ASSUME NEW x \in Users \X Requests PROVE x \in P <=> x \in Q
  <2>1. PICK u \in Users, r \in Requests : x = <<u, r>>
    OBVIOUS
  <2> QED BY <2>1
<1> QED BY <1>1

LEMMA ProofPairs == Proofs \subseteq Users \X Requests /\ Proofs' \subseteq Users \X Requests
BY DEF Proofs

\* No request and no credentials change.
LEMMA ProofsKept ==
  ASSUME UNCHANGED req, \A v \in Users : Cred(v)' = Cred(v)
  PROVE  Proofs' = Proofs
<1>1. ASSUME NEW u \in Users, NEW r \in Requests PROVE <<u, r>> \in Proofs' <=> <<u, r>> \in Proofs
  <2>1. ProofNow(u, r)' <=> ProofNow(u, r)
    <3>1. Cred(u)' = Cred(u) /\ req' = req
      OBVIOUS
    <3> QED BY <3>1 DEF ProofNow
  <2> QED BY <2>1, ProofIs
<1> QED BY <1>1, ProofPairs, SameProofs

\* A new authVersion outdates the proofs of the account.
LEMMA ProofsOutdated ==
  ASSUME SessionInv, UNCHANGED req, NEW u \in Users, acct'[u].ver = acct[u].ver + 1,
         \A v \in Users \ {u} : acct'[v] = acct[v]
  PROVE  Proofs' = Proofs \ Promise!Of(u, Proofs)
<1>1. ASSUME NEW v \in Users, NEW r \in Requests
      PROVE  <<v, r>> \in Proofs' <=> <<v, r>> \in Proofs /\ v # u
  <2>1. CASE v = u
    <3>1. SUFFICES ASSUME ProofNow(v, r)' PROVE FALSE
      BY <2>1, ProofIs
    <3>2. req[r].step = "open" /\ req[r].user = u /\ req[r].cred.ver = acct[u].ver + 1
      BY <2>1, <3>1 DEF ProofNow, Cred
    <3>3. req[r] # Idle
      BY <3>2 DEF Idle
    <3>4. req[r].cred.ver <= acct[u].ver
      BY <3>2, <3>3 DEF SessionInv, RequestsCurrent
    <3>5. acct[u].ver \in Nat
      BY DEF SessionInv, TypeOK, Account
    <3> QED BY <3>2, <3>4, <3>5
  <2>2. CASE v # u
    <3>1. ProofNow(v, r)' <=> ProofNow(v, r)
      BY <2>2 DEF ProofNow, Cred
    <3> QED BY <2>2, <3>1, ProofIs
  <2> QED BY <2>1, <2>2
<1>2. ASSUME NEW v \in Users, NEW r \in Requests
      PROVE  <<v, r>> \in Proofs \ Promise!Of(u, Proofs) <=> <<v, r>> \in Proofs /\ v # u
  BY DEF Promise!Of
<1> QED BY <1>1, <1>2, ProofPairs, SameProofs

\* An answered request proves nothing any more.
LEMMA ProofAnswered ==
  ASSUME TypeOK, NEW r \in Requests, Answer(r), \A v \in Users : Cred(v)' = Cred(v)
  PROVE  Proofs' = {p \in Proofs : p[2] # r}
<1>1. ASSUME NEW v \in Users, NEW q \in Requests
      PROVE  <<v, q>> \in Proofs' <=> <<v, q>> \in Proofs /\ q # r
  <2>1. req'[q] = IF q = r THEN Idle ELSE req[q]
    BY DEF Answer, TypeOK
  <2>2. ProofNow(v, q)' <=> ProofNow(v, q) /\ q # r
    <3>1. Idle.step # "open" /\ Cred(v)' = Cred(v)
      BY DEF Idle
    <3> QED BY <2>1, <3>1 DEF ProofNow
  <2> QED BY <2>2, ProofIs
<1>2. ASSUME NEW v \in Users, NEW q \in Requests
      PROVE  <<v, q>> \in {p \in Proofs : p[2] # r} <=> <<v, q>> \in Proofs /\ q # r
  OBVIOUS
<1> QED BY <1>1, <1>2, ProofPairs, SameProofs

\* A request that begins proves who it is, if its check ended with that.
LEMMA ProofBegun ==
  ASSUME TypeOK, NEW r \in Requests, NEW u \in Users, NEW step \in Steps, NEW p, NEW f, NEW c,
         Begin(r, step, u, p, f, c)
  PROVE  /\ \A x \in Proofs : x[2] # r
         /\ step = "open" => Proofs' = Proofs \cup {<<u, r>>}
         /\ step # "open" => Proofs' = Proofs
<1>1. /\ req[r] = Idle /\ req'[r].step = step /\ req'[r].user = u /\ req'[r].cred = Cred(u)
      /\ \A q \in Requests \ {r} : req'[q] = req[q]
      /\ acct' = acct
  BY DEF Begin, TypeOK
<1>2. ASSUME NEW v \in Users PROVE <<v, r>> \notin Proofs
  BY <1>1, ProofIs DEF ProofNow, Idle
<1>3. \A x \in Proofs : x[2] # r
  <2> SUFFICES ASSUME NEW x \in Proofs, x[2] = r PROVE FALSE
    OBVIOUS
  <2>1. PICK v \in Users, q \in Requests : x = <<v, q>>
    BY ProofPairs
  <2> QED BY <1>2, <2>1
<1>4. ASSUME NEW v \in Users, NEW q \in Requests
      PROVE  <<v, q>> \in Proofs' <=> <<v, q>> \in Proofs \/ (step = "open" /\ v = u /\ q = r)
  <2>1. Cred(v)' = Cred(v)
    BY <1>1 DEF Cred
  <2>2. CASE q = r
    <3>1. ProofNow(v, q)' <=> (step = "open" /\ v = u)
      BY <1>1, <2>1, <2>2 DEF ProofNow
    <3> QED BY <1>2, <2>2, <3>1, ProofIs
  <2>3. CASE q # r
    <3>1. ProofNow(v, q)' <=> ProofNow(v, q)
      BY <1>1, <2>1, <2>3 DEF ProofNow
    <3> QED BY <2>3, <3>1, ProofIs
  <2> QED BY <2>2, <2>3
<1>5. CASE step = "open"
  <2>1. ASSUME NEW v \in Users, NEW q \in Requests
        PROVE  <<v, q>> \in Proofs' <=> <<v, q>> \in Proofs \cup {<<u, r>>}
    BY <1>4, <1>5
  <2>2. Proofs \cup {<<u, r>>} \subseteq Users \X Requests
    BY ProofPairs
  <2> QED BY <1>3, <1>5, <2>1, <2>2, ProofPairs, SameProofs
<1>6. CASE step # "open"
  BY <1>3, <1>4, <1>6, ProofPairs, SameProofs
<1> QED BY <1>5, <1>6

\* Only the account that is written may change sides.
LEMMA BarredMoves ==
  ASSUME TypeOK, TypeOK', NEW u \in Users, \A v \in Users \ {u} : acct'[v] = acct[v]
  PROVE  /\ Open(acct'[u]) => Barred' = Barred \ {u}
         /\ ~Open(acct'[u]) => Barred' = Barred \cup {u}
<1>1. ASSUME NEW v \in Users
      PROVE  v \in Barred' <=> IF v = u THEN ~Open(acct'[u]) ELSE v \in Barred
  BY BarredIs, BarredNext
<1>2. Barred \subseteq Users /\ Barred' \subseteq Users
  BY DEF Barred
<1> QED BY <1>1, <1>2

LEMMA BarredStays ==
  ASSUME TypeOK, TypeOK', \A v \in Users : Open(acct'[v]) <=> Open(acct[v])
  PROVE  Barred' = Barred
<1>1. ASSUME NEW v \in Users PROVE v \in Barred' <=> v \in Barred
  BY BarredIs, BarredNext
<1>2. Barred \subseteq Users /\ Barred' \subseteq Users
  BY DEF Barred
<1> QED BY <1>1, <1>2

LEMMA SameCred ==
  ASSUME NEW v \in Users, acct'[v].ver = acct[v].ver, acct'[v].hash = acct[v].hash,
         acct'[v].method = acct[v].method
  PROVE  Cred(v)' = Cred(v)
BY DEF Cred

\* Sign-out, revocation, rotation, replay, expiry: sessions may end, that is all.
LEMMA EndsStep ==
  ASSUME RowStep, Successors, Barred' = Barred, Proofs' = Proofs, UNCHANGED <<tenantActive, epoch>>
  PROVE  Promise!End
BY OnlyEnds DEF Promise!End, Promise!NoneOpens

\* A step that leaves accounts, school, requests and epochs alone and adds no session.
LEMMA RowsOnly ==
  ASSUME SessionInv, RowStep, Successors, UNCHANGED <<acct, tenantActive, req, epoch>>
  PROVE  Promise!End
<1>1. Barred' = Barred
  BY DEF Barred
<1>2. \A v \in Users : Cred(v)' = Cred(v)
  BY DEF Cred
<1> QED BY <1>1, <1>2, ProofsKept, EndsStep

\* All sessions of u end together with an epoch.
LEMMA CloseStep ==
  ASSUME SessionInv, SessionInv', RowStep, NEW u \in Users,
         token' = Revoked(UnrevokedOf(u)), CloseEpoch(u), UNCHANGED <<tenantActive, req>>,
         acct'[u].ver = acct[u].ver + 1, \A v \in Users \ {u} : acct'[v] = acct[v]
  PROVE  Promise!Close(u)
<1>1. TypeOK /\ TypeOK'
  BY DEF SessionInv
<1>2. Barred' \in {Barred, Barred \cup {u}, Barred \ {u}}
  BY <1>1, BarredMoves
<1>3. Proofs' = Proofs \ Promise!Of(u, Proofs)
  BY ProofsOutdated
<1>4. Successors
  BY <1>1, NoRowAdded
<1>5. OpenSessions' = OpenSessions \ Promise!Of(u, OpenSessions)
  BY <1>1, AllEnd
<1>6. /\ OpenSessions' \subseteq OpenSessions
      /\ (Sessions \ OpenSessions)' = (Sessions \ OpenSessions) \cup (OpenSessions \ OpenSessions')
  BY <1>4, OnlyEnds
<1>7. epoch' = [epoch EXCEPT ![u] = @ + 1] /\ (~tenantActive)' = ~tenantActive
  BY DEF CloseEpoch
<1> QED BY <1>2, <1>3, <1>5, <1>6, <1>7 DEF Promise!Close, Promise!CloseAll, Promise!NoneOpens

\* The credentials of u change; no session but some of u's ends.
LEMMA RenewStep ==
  ASSUME SessionInv, SessionInv', RowStep, NEW u \in Users,
         token' = token \/ \E S : S \subseteq UnrevokedOf(u) /\ token' = Revoked(S),
         UNCHANGED <<tenantActive, req, epoch>>, Open(acct[u]) => Open(acct'[u]),
         acct'[u].ver = acct[u].ver + 1, \A v \in Users \ {u} : acct'[v] = acct[v]
  PROVE  Promise!Renew(u)
<1>1. TypeOK /\ TypeOK'
  BY DEF SessionInv
<1>2. Barred' \in {Barred, Barred \ {u}}
  <2>1. u \in Barred <=> ~Open(acct[u])
    BY <1>1, BarredIs
  <2> QED BY <1>1, <2>1, BarredMoves
<1>3. Proofs' = Proofs \ Promise!Of(u, Proofs)
  BY ProofsOutdated
<1>4. Successors
  BY <1>1, NoRowAdded
<1>5. /\ OpenSessions' \subseteq OpenSessions
      /\ (Sessions \ OpenSessions)' = (Sessions \ OpenSessions) \cup (OpenSessions \ OpenSessions')
  BY <1>4, OnlyEnds
<1>6. ASSUME NEW s \in OpenSessions, s \notin OpenSessions' PROVE s \in Promise!Of(u, OpenSessions)
  <2>1. PICK t \in DOMAIN token : token[t].st = "live" /\ s = <<token[t].owner, token[t].family>>
    BY OpenIs
  <2>2. CASE token[t].owner = u
    BY <2>1, <2>2 DEF Promise!Of
  <2>3. CASE token[t].owner # u
    <3>1. t \notin UnrevokedOf(u)
      BY <2>3 DEF UnrevokedOf
    <3>2. ASSUME NEW S, S \subseteq UnrevokedOf(u), token' = Revoked(S)
          PROVE  t \in DOMAIN token' /\ token'[t] = token[t]
      <4>1. t \notin S
        BY <3>1, <3>2
      <4> QED BY <1>1, <3>2, <4>1, RevokedRows DEF TypeOK
    <3>3. t \in DOMAIN token' /\ token'[t] = token[t]
      BY <3>2
    <3> QED BY <1>6, <2>1, <3>3, OpenNext
  <2> QED BY <2>2, <2>3
<1>7. (~tenantActive)' = ~tenantActive /\ epoch' = epoch
  OBVIOUS
<1> QED BY <1>2, <1>3, <1>5, <1>6, <1>7 DEF Promise!Renew, Promise!NoneOpens

\* What is read before the lock: a proof, if it passed every check of its kind.
LEMMA ReadsProve ==
  ASSUME SessionInv, NEW r \in Requests, NEW u \in Users,
         \/ Login(r, u)
         \/ RequestOtpLogin(r, u)
         \/ \E c \in DOMAIN code : VerifyOtpLogin(r, u, c)
         \/ RequestPasswordRecovery(r, u)
         \/ \E f \in DOMAIN token : RequestMfaSetup(r, u, f)
  PROVE  Promise!Prove(u, r) \/ UNCHANGED Promise!contractVars
<1>1. UNCHANGED <<acct, tenantActive, token, code, challenge, epoch>> /\ TypeOK
  BY ReadsBegin DEF SessionInv
<1>2. UNCHANGED <<Barred, OpenSessions, Sessions \ OpenSessions, epoch, ~tenantActive>>
  BY <1>1 DEF Barred, OpenSessions, Sessions
<1>3. PICK step, p, f, c : /\ step \in Steps /\ Begin(r, step, u, p, f, c)
                           /\ step = "open" => CanAuthenticate(u)
  <2>1. {"fail", "open", "otp"} = Steps
    BY DEF Steps
  <2> QED BY <2>1 DEF Login, RequestOtpLogin, VerifyOtpLogin, RequestPasswordRecovery, RequestMfaSetup
<1>4. /\ \A x \in Proofs : x[2] # r
      /\ step = "open" => Proofs' = Proofs \cup {<<u, r>>}
      /\ step # "open" => Proofs' = Proofs
  <2>1. TypeOK /\ step \in Steps /\ Begin(r, step, u, p, f, c)
    BY <1>1, <1>3
  <2> QED BY <2>1, ProofBegun, Zenon
<1>5. CASE step = "open"
  <2>1. tenantActive /\ u \notin Barred
    BY <1>1, <1>3, <1>5, BarredIs DEF CanAuthenticate, Open
  <2> QED BY <1>2, <1>4, <1>5, <2>1 DEF Promise!Prove
<1>6. CASE step # "open"
  BY <1>2, <1>4, <1>6 DEF Promise!contractVars
<1> QED BY <1>5, <1>6

\* A request answered without effect on accounts and rows gives up its proof.
LEMMA AnswerForgets ==
  ASSUME SessionInv, NEW r \in Requests, req[r] # Idle, Answer(r),
         UNCHANGED <<acct, tenantActive, token, epoch>>
  PROVE  Promise!Forget(req[r].user, r) \/ UNCHANGED Promise!contractVars
<1>1. TypeOK
  BY DEF SessionInv
<1>2. UNCHANGED <<Barred, OpenSessions, Sessions \ OpenSessions, epoch, ~tenantActive>>
  BY DEF Barred, OpenSessions, Sessions
<1>3. \A v \in Users : Cred(v)' = Cred(v)
  BY DEF Cred
<1>4. Proofs' = {p \in Proofs : p[2] # r}
  BY <1>1, <1>3, ProofAnswered
<1>5. ASSUME NEW x \in Proofs, x[2] = r PROVE x = <<req[r].user, r>>
  BY <1>5 DEF Proofs
<1>6. CASE \E x \in Proofs : x[2] = r
  <2>1. <<req[r].user, r>> \in Proofs
    BY <1>5, <1>6
  <2>2. Proofs' = Proofs \ {<<req[r].user, r>>}
    BY <1>4, <1>5
  <2> QED BY <1>2, <2>1, <2>2 DEF Promise!Forget
<1>7. CASE \A x \in Proofs : x[2] # r
  <2>1. Proofs' = Proofs
    BY <1>4, <1>7
  <2> QED BY <1>2, <2>1 DEF Promise!contractVars
<1> QED BY <1>6, <1>7

\* A request that proves nothing is answered: the proofs stay.
LEMMA OtherAnswered ==
  ASSUME TypeOK, NEW r \in Requests, req[r].step # "open", Answer(r),
         \A v \in Users : Cred(v)' = Cred(v)
  PROVE  Proofs' = Proofs
<1>1. Proofs' = {p \in Proofs : p[2] # r}
  BY ProofAnswered
<1>2. \A p \in Proofs : p[2] # r
  BY DEF Proofs
<1> QED BY <1>1, <1>2

\* completeAuthenticatedSession opens a session for its proof, or gives it up.
LEMMA CompleteSignsIn ==
  ASSUME SessionInv, SessionInv', NEW r \in Requests, CompleteAuthenticatedSession(r)
  PROVE  /\ req[r].user \in Users
         /\ \/ Promise!SignIn(req[r].user, r)
            \/ Promise!Forget(req[r].user, r)
            \/ UNCHANGED Promise!contractVars
<1>1. TypeOK /\ TypeOK'
  BY DEF SessionInv
<1>2. PICK u : u = req[r].user
  OBVIOUS
<1>3. req[r] \in Request /\ req[r] # Idle /\ u \in Users /\ req[r].epoch \in Nat /\ req[r].step = "open"
  BY <1>1, <1>2, DueRequest DEF CompleteAuthenticatedSession, Steps, Request
<1>4. CASE Reject(r)
  BY <1>2, <1>3, <1>4, AnswerForgets DEF Reject
<1>5. CASE ~Reject(r)
  <2>1. PICK new : new = Session(u, Len(token) + 1, req[r].epoch)
    OBVIOUS
  <2>2. /\ token' = Append(token, new) /\ CanAuthenticate(u) /\ CredentialsUnchanged(r)
        /\ acct' = [acct EXCEPT ![u].fails = 0, ![u].locked = FALSE]
        /\ Answer(r) /\ UNCHANGED <<tenantActive, epoch>>
    BY <1>2, <1>5, <2>1 DEF CompleteAuthenticatedSession, OpenFamily
  <2>3. new \in Token /\ new.owner = u /\ new.family = Len(token) + 1 /\ new.st = "live"
    BY <1>1, <1>3, <2>1, LenProperties DEF Session, Token, TypeOK
  <2>4. /\ DOMAIN token' = DOMAIN token \cup {Len(token) + 1}
        /\ \A t \in DOMAIN token : token'[t] = token[t]
        /\ token'[Len(token) + 1] = new
    BY <1>1, <2>2, <2>3, Appended DEF TypeOK
  <2>5. ASSUME NEW v \in Users
        PROVE  (Open(acct'[v]) <=> Open(acct[v])) /\ Cred(v)' = Cred(v)
    <3>1. Open(acct[u])
      BY <2>2 DEF Open, CanAuthenticate
    <3>2. /\ acct'[v].status = acct[v].status /\ acct'[v].ver = acct[v].ver
          /\ acct'[v].hash = acct[v].hash /\ acct'[v].method = acct[v].method
      BY <1>1, <1>3, <2>2 DEF TypeOK, Account
    <3>3. v # u => acct'[v] = acct[v]
      BY <1>1, <1>3, <2>2 DEF TypeOK
    <3>4. Open(acct'[u])
      BY <1>1, <1>3, <2>2 DEF Open, CanAuthenticate, TypeOK, Account
    <3>5. Open(acct'[v]) <=> Open(acct[v])
      BY <3>1, <3>3, <3>4
    <3> QED BY <3>2, <3>5, SameCred
  <2>6. Barred' = Barred
    BY <1>1, <2>5, BarredStays
  <2>7. Proofs' = {p \in Proofs : p[2] # r}
    BY <1>1, <2>2, <2>5, ProofAnswered
  <2>8. /\ <<u, r>> \in Proofs
        /\ \A x \in Proofs : x[2] = r => x = <<u, r>>
    <3>1. <<u, r>> \in Proofs
      BY <1>2, <1>3, <2>2, ProofIs DEF ProofNow, CredentialsUnchanged
    <3>2. \A x \in Proofs : x[2] = r => x = <<u, r>>
      BY <1>2 DEF Proofs
    <3> QED BY <3>1, <3>2
  <2>9. Proofs' = Proofs \ {<<u, r>>}
    BY <2>7, <2>8
  <2>10. PICK s : s = <<u, Len(token) + 1>>
    OBVIOUS
  <2>11. s \notin Sessions
    <3>1. SUFFICES ASSUME NEW t \in DOMAIN token, token[t].family = Len(token) + 1 PROVE FALSE
      BY <2>10 DEF Sessions
    <3>2. token[t].family <= Len(token) /\ Len(token) \in Nat
      BY <1>1, RowType DEF SessionInv, FamiliesNamedByRows
    <3> QED BY <3>1, <3>2
  <2>12. Sessions' = Sessions \cup {s}
    <3>1. ASSUME NEW x \in Sessions PROVE x \in Sessions'
      BY <2>4 DEF Sessions
    <3>2. s \in Sessions'
      BY <2>3, <2>4, <2>10 DEF Sessions
    <3>3. ASSUME NEW x \in Sessions' PROVE x \in Sessions \cup {s}
      <4>1. PICK t \in DOMAIN token' : x = <<token'[t].owner, token'[t].family>>
        BY DEF Sessions
      <4>2. CASE t \in DOMAIN token
        BY <2>4, <4>1, <4>2 DEF Sessions
      <4>3. CASE t \notin DOMAIN token
        BY <2>3, <2>4, <2>10, <4>1, <4>3
      <4> QED BY <4>2, <4>3
    <3> QED BY <3>1, <3>2, <3>3
  <2>13. OpenSessions' = OpenSessions \cup {s}
    <3>1. ASSUME NEW x \in OpenSessions PROVE x \in OpenSessions'
      <4>1. PICK t \in DOMAIN token : token[t].st = "live" /\ x = <<token[t].owner, token[t].family>>
        BY OpenIs
      <4> QED BY <2>4, <4>1, OpenNext
    <3>2. s \in OpenSessions'
      BY <2>3, <2>4, <2>10, OpenNext
    <3>3. ASSUME NEW x \in OpenSessions' PROVE x \in OpenSessions \cup {s}
      <4>1. PICK t \in DOMAIN token' : token'[t].st = "live" /\ x = <<token'[t].owner, token'[t].family>>
        BY OpenNext
      <4>2. CASE t \in DOMAIN token
        BY <2>4, <4>1, <4>2, OpenIs
      <4>3. CASE t \notin DOMAIN token
        BY <2>3, <2>4, <2>10, <4>1, <4>3
      <4> QED BY <4>2, <4>3
    <3> QED BY <3>1, <3>2, <3>3
  <2>14. OpenSessions \subseteq Sessions
    BY OpenOnes
  <2>15. /\ (Sessions \ OpenSessions)' = Sessions \ OpenSessions
         /\ s \in OpenSessions' \ (OpenSessions \cup (Sessions \ OpenSessions))
         /\ s[1] = u
    BY <2>10, <2>11, <2>12, <2>13, <2>14
  <2>16. tenantActive /\ u \notin Barred /\ (~tenantActive)' = ~tenantActive
    BY <1>1, <1>3, <2>2, BarredIs DEF CanAuthenticate, Open
  <2>17. Promise!SignIn(u, r)
    BY <2>2, <2>6, <2>8, <2>9, <2>13, <2>15, <2>16 DEF Promise!SignIn
  <2> QED BY <1>2, <1>3, <2>17
<1> QED BY <1>2, <1>3, <1>4, <1>5

\* A failed attempt counts, and from the limit on locks the account.
LEMMA FailureLocks ==
  ASSUME SessionInv, SessionInv', RowStep, NEW r \in Requests, RecordFailedPasswordLogin(r)
  PROVE  /\ req[r].user \in Users
         /\ \/ Promise!Lock(req[r].user)
            \/ Promise!End
            \/ Promise!Forget(req[r].user, r)
            \/ UNCHANGED Promise!contractVars
<1>1. TypeOK /\ TypeOK'
  BY DEF SessionInv
<1>2. PICK u : u = req[r].user
  OBVIOUS
<1>3. req[r] # Idle /\ u \in Users /\ req[r].step = "fail"
  BY <1>1, <1>2, DueRequest DEF RecordFailedPasswordLogin, Steps, Request
<1>4. CASE Reject(r)
  BY <1>2, <1>3, <1>4, AnswerForgets DEF Reject
<1>5. CASE ~Reject(r)
  <2>1. PICK fails : fails = IF acct[u].fails = MaxFailed THEN MaxFailed ELSE acct[u].fails + 1
    OBVIOUS
  <2>2. PICK locks : locks = (fails >= MaxFailed)
    OBVIOUS
  <2>3. /\ acct' = [acct EXCEPT ![u].fails = fails, ![u].locked = locks]
        /\ token' = IF locks THEN Revoked(UnrevokedOf(u)) ELSE token
        /\ CanAuthenticate(u) /\ Answer(r) /\ UNCHANGED <<tenantActive, epoch>>
    BY <1>2, <1>5, <2>1, <2>2 DEF RecordFailedPasswordLogin
  <2>4. /\ acct'[u].locked = locks
        /\ \A v \in Users \ {u} : acct'[v] = acct[v]
        /\ \A v \in Users : /\ acct'[v].status = acct[v].status /\ acct'[v].ver = acct[v].ver
                            /\ acct'[v].hash = acct[v].hash /\ acct'[v].method = acct[v].method
    BY <1>1, <1>3, <2>3 DEF TypeOK, Account
  <2>5. \A v \in Users : Cred(v)' = Cred(v)
    BY <2>4, SameCred
  <2>6. Proofs' = Proofs
    BY <1>1, <1>3, <2>3, <2>5, OtherAnswered
  <2>7. Successors
    BY <1>1, <2>3, NoRowAdded
  <2>8. Open(acct[u])
    BY <2>3 DEF Open, CanAuthenticate
  <2>9. CASE locks
    <3>1. ~Open(acct'[u])
      BY <2>4, <2>9 DEF Open
    <3>2. Barred' = Barred \cup {u}
      BY <1>1, <1>3, <2>4, <3>1, BarredMoves
    <3>3. OpenSessions' = OpenSessions \ Promise!Of(u, OpenSessions)
      BY <1>1, <1>3, <2>3, <2>9, AllEnd
    <3>4. Promise!Lock(u)
      BY <2>3, <2>6, <2>7, <3>2, <3>3, OnlyEnds DEF Promise!Lock, Promise!CloseAll, Promise!NoneOpens
    <3> QED BY <1>2, <1>3, <3>4
  <2>10. CASE ~locks
    <3>1. Open(acct'[u])
      BY <1>3, <2>4, <2>8, <2>10 DEF Open
    <3>2. Barred' = Barred
      <4>1. \A v \in Users : Open(acct'[v]) <=> Open(acct[v])
        BY <2>4, <2>8, <3>1
      <4> QED BY <1>1, <4>1, BarredStays
    <3>3. Promise!End
      BY <2>3, <2>6, <2>7, <3>2, EndsStep
    <3> QED BY <1>2, <1>3, <3>3
  <2> QED BY <2>9, <2>10
<1> QED BY <1>2, <1>3, <1>4, <1>5

\* A rotation succeeds the token it replaces, a replay adds nothing.
LEMMA RefreshSucceeds ==
  ASSUME TypeOK, NEW t \in DOMAIN token, Refresh(t)
  PROVE  Successors
<1>1. CASE \E S : token' = Revoked(S)
  BY <1>1, NoRowAdded
<1>2. CASE MayRotate(t) /\ token' = Rotated(t)
  <2>1. PICK rows, new : /\ rows = Revoked({t})
                         /\ new = Session(token[t].owner, token[t].family, token[t].proof)
    OBVIOUS
  <2>2. token[t].st = "live" /\ token' = Append(rows, new)
    BY <1>2, <2>1 DEF MayRotate, Rotated
  <2>3. rows \in Seq(Token) /\ DOMAIN rows = DOMAIN token
    BY <2>1, RevokedRows DEF TypeOK
  <2>4. new \in Token /\ new.owner = token[t].owner /\ new.family = token[t].family
    BY <2>1, RowType DEF Session, Token
  <2>5. DOMAIN token' = DOMAIN rows \cup {Len(rows) + 1} /\ token'[Len(rows) + 1] = new
    BY <2>2, <2>3, <2>4, Appended
  <2> QED BY <2>2, <2>3, <2>4, <2>5 DEF Successors
<1> QED BY <1>1, <1>2 DEF Refresh

\* updateStatus closes an active account's sessions, or lets one sign in again.
LEMMA StatusStep ==
  ASSUME SessionInv, SessionInv', RowStep, NEW a \in Users, NEW u \in Users, NEW f, NEW s \in Statuses,
         UpdateStatus(a, f, u, s)
  PROVE  Promise!Close(u) \/ Promise!Renew(u) \/ Promise!End
<1>1. TypeOK /\ TypeOK' /\ acct[u].ver \in Nat
  BY DEF SessionInv, TypeOK, Account
<1>2. PICK ver : ver = IF s # acct[u].status THEN acct[u].ver + 1 ELSE acct[u].ver
  OBVIOUS
<1>3. /\ acct' = [acct EXCEPT ![u].status = s, ![u].ver = ver]
      /\ token' = IF s # "ACTIVE" THEN Revoked(UnrevokedOf(u)) ELSE token
      /\ s # "ACTIVE" /\ s # acct[u].status => CloseEpoch(u)
      /\ ~(s # "ACTIVE" /\ s # acct[u].status) => epoch' = epoch
      /\ UNCHANGED <<tenantActive, req>>
  BY <1>2 DEF UpdateStatus, EndAllAccess
<1>4. /\ \A v \in Users \ {u} : acct'[v] = acct[v]
      /\ acct'[u].status = s /\ acct'[u].ver = ver /\ acct'[u].locked = acct[u].locked
      /\ acct'[u].hash = acct[u].hash /\ acct'[u].method = acct[u].method
  BY <1>1, <1>3 DEF TypeOK, Account
<1>5. Successors
  BY <1>1, <1>3, NoRowAdded
<1>6. CASE s = acct[u].status
  <2>1. ASSUME NEW v \in Users PROVE (Open(acct'[v]) <=> Open(acct[v])) /\ Cred(v)' = Cred(v)
    <3>1. CASE v = u
      BY <1>2, <1>4, <1>6, <3>1, SameCred DEF Open
    <3>2. CASE v # u
      BY <1>4, <3>2, SameCred
    <3> QED BY <3>1, <3>2
  <2>2. Barred' = Barred /\ Proofs' = Proofs
    BY <1>1, <1>3, <2>1, BarredStays, ProofsKept
  <2> QED BY <1>3, <1>5, <1>6, <2>2, EndsStep
<1>7. CASE s # acct[u].status /\ s # "ACTIVE"
  BY <1>2, <1>3, <1>4, <1>7, CloseStep
<1>8. CASE s # acct[u].status /\ s = "ACTIVE"
  <2>1. Open(acct[u]) => Open(acct'[u])
    BY <1>8 DEF Open
  <2> QED BY <1>2, <1>3, <1>4, <1>8, <2>1, RenewStep
<1> QED BY <1>6, <1>7, <1>8

\* A lock that runs out lets an active account sign in again.
LEMMA UnlockStep ==
  ASSUME SessionInv, SessionInv', RowStep, NEW u \in Users, LockExpires(u)
  PROVE  Promise!Unlock(u) \/ Promise!End
<1>1. TypeOK /\ TypeOK'
  BY DEF SessionInv
<1>2. /\ acct[u].locked /\ acct' = [acct EXCEPT ![u].locked = FALSE]
      /\ UNCHANGED <<token, tenantActive, req, epoch>>
  BY DEF LockExpires
<1>3. /\ \A v \in Users \ {u} : acct'[v] = acct[v]
      /\ \A v \in Users : /\ acct'[v].ver = acct[v].ver /\ acct'[v].hash = acct[v].hash
                          /\ acct'[v].method = acct[v].method
  BY <1>1, <1>2 DEF TypeOK, Account
<1>4. Proofs' = Proofs
  <2>1. \A v \in Users : Cred(v)' = Cred(v)
    BY <1>3, SameCred
  <2> QED BY <1>2, <2>1, ProofsKept
<1>5. u \in Barred
  BY <1>2 DEF Barred
<1>6. CASE Open(acct'[u])
  <2>1. Barred' = Barred \ {u}
    BY <1>1, <1>3, <1>6, BarredMoves
  <2>2. UNCHANGED <<OpenSessions, Sessions \ OpenSessions, epoch, ~tenantActive>>
    BY <1>2 DEF OpenSessions, Sessions
  <2> QED BY <1>4, <2>1, <2>2 DEF Promise!Unlock
<1>7. CASE ~Open(acct'[u])
  <2>1. Barred' = Barred
    BY <1>1, <1>3, <1>5, <1>7, BarredMoves
  <2>2. Successors
    BY <1>1, <1>2, NoRowAdded
  <2> QED BY <1>2, <1>4, <2>1, <2>2, EndsStep
<1> QED BY <1>6, <1>7

\* changePassword outdates what was proved with the old one.
LEMMA PasswordStep ==
  ASSUME SessionInv, SessionInv', RowStep, NEW u \in Users, NEW f, NEW b, ChangePassword(u, f, b)
  PROVE  Promise!Renew(u)
<1>1. TypeOK
  BY DEF SessionInv
<1>2. /\ acct' = [acct EXCEPT ![u].hash = @ + 1, ![u].ver = @ + 1, ![u].mustChange = FALSE,
                              ![u].fails = 0, ![u].locked = FALSE]
      /\ UNCHANGED <<tenantActive, req, epoch>>
  BY DEF ChangePassword
<1>3. token' = token \/ \E S : S \subseteq UnrevokedOf(u) /\ token' = Revoked(S)
  <2>1. PICK current : token' = IF b THEN Revoked(UnrevokedOf(u) \ {current}) ELSE token
    BY DEF ChangePassword
  <2>2. UnrevokedOf(u) \ {current} \subseteq UnrevokedOf(u)
    OBVIOUS
  <2> QED BY <2>1, <2>2
<1>4. /\ \A v \in Users \ {u} : acct'[v] = acct[v]
      /\ acct'[u].ver = acct[u].ver + 1
      /\ acct'[u].status = acct[u].status /\ acct'[u].locked = FALSE
  BY <1>1, <1>2, SMTT(30) DEF TypeOK, Account
<1>5. Open(acct[u]) => Open(acct'[u])
  BY <1>4 DEF Open
<1> QED BY <1>2, <1>3, <1>4, <1>5, RenewStep

LEMMA ContractStep ==
  ASSUME SessionInv, [Next]_vars
  PROVE  [Promise!ContractNext]_(Promise!contractVars)
<1> DEFINE Kept == [Promise!ContractNext]_(Promise!contractVars)
<1>1. SessionInv' /\ TypeOK /\ RowStep
  BY SessionStep, EveryStepIsRowStep DEF SessionInv
<1>e. Promise!End => Kept
  BY DEF Promise!ContractNext
<1>s. UNCHANGED Promise!contractVars => Kept
  OBVIOUS
<1>u. ASSUME NEW u \in Users, Promise!Lock(u) \/ Promise!Unlock(u) \/ Promise!Renew(u) \/ Promise!Close(u)
      PROVE  Kept
  BY <1>u DEF Promise!ContractNext
<1>r. ASSUME NEW u \in Users, NEW r \in Requests,
             Promise!Prove(u, r) \/ Promise!Forget(u, r) \/ Promise!SignIn(u, r)
      PROVE  Kept
  BY <1>r DEF Promise!ContractNext
<1> HIDE DEF Kept
<1>o. ASSUME Successors, UNCHANGED <<acct, tenantActive, req, epoch>> PROVE Kept
  BY <1>o, <1>1, <1>e, RowsOnly
<1>t. ASSUME token' = token \/ \E S : token' = Revoked(S), UNCHANGED <<acct, tenantActive, req, epoch>>
      PROVE  Kept
  BY <1>t, <1>1, <1>o, NoRowAdded
<1>c. ASSUME NEW u \in Users, EndAllAccess(u), CloseEpoch(u), UNCHANGED <<tenantActive, req>>,
             acct'[u].ver = acct[u].ver + 1, \A v \in Users \ {u} : acct'[v] = acct[v]
      PROVE  Kept
  <2>1. token' = Revoked(UnrevokedOf(u))
    BY <1>c DEF EndAllAccess
  <2> QED BY <1>c, <1>1, <1>u, <2>1, CloseStep
<1>2. ASSUME UNCHANGED vars PROVE Kept
  BY <1>2, <1>t DEF vars
<1>3. ASSUME Operations PROVE Kept
  <2>1. ASSUME NEW r \in Requests, NEW u \in Users,
               \/ Login(r, u)
               \/ RequestOtpLogin(r, u)
               \/ \E c \in DOMAIN code : VerifyOtpLogin(r, u, c)
               \/ RequestPasswordRecovery(r, u)
               \/ \E f \in DOMAIN token : RequestMfaSetup(r, u, f)
        PROVE  Kept
    BY <2>1, <1>r, <1>s, ReadsProve, Zenon
  <2>2. ASSUME NEW r \in Requests, RecordFailedPasswordLogin(r) PROVE Kept
    BY <2>2, <1>1, <1>r, <1>s, <1>u, <1>e, FailureLocks
  <2>3. ASSUME NEW r \in Requests, CompleteAuthenticatedSession(r) PROVE Kept
    BY <2>3, <1>1, <1>r, <1>s, CompleteSignsIn
  <2>4. ASSUME NEW r \in Requests, IssueOtpEmail(r) PROVE Kept
    <3>1. req[r] # Idle /\ req[r].user \in Users
      BY <2>4, <1>1, DueRequest DEF IssueOtpEmail, Steps, Request
    <3>2. Answer(r) /\ UNCHANGED <<acct, tenantActive, token, epoch>>
      BY <2>4 DEF IssueOtpEmail, Reject
    <3> QED BY <3>1, <3>2, <1>r, <1>s, AnswerForgets
  <2>5. ASSUME NEW u \in Users, NEW c \in DOMAIN code, ConfirmPasswordRecovery(u, c) PROVE Kept
    <3>1. acct'[u].ver = acct[u].ver + 1 /\ \A v \in Users \ {u} : acct'[v] = acct[v]
      BY <2>5, <1>1 DEF ConfirmPasswordRecovery, TypeOK, Account
    <3> QED BY <2>5, <3>1, <1>c DEF ConfirmPasswordRecovery
  <2>6. ASSUME NEW u \in Users, NEW f \in DOMAIN token, NEW c \in DOMAIN code, NEW m \in AuthMethods,
               ConfirmMfaSetup(u, f, c, m)
        PROVE  Kept
    <3>1. acct'[u].ver = acct[u].ver + 1 /\ \A v \in Users \ {u} : acct'[v] = acct[v]
      BY <2>6, <1>1 DEF ConfirmMfaSetup, TypeOK, Account
    <3> QED BY <2>6, <3>1, <1>c DEF ConfirmMfaSetup
  <2>7. ASSUME NEW u \in Users, NEW f \in DOMAIN token, NEW b \in BOOLEAN, ChangePassword(u, f, b)
        PROVE  Kept
    BY <2>7, <1>1, <1>u, PasswordStep
  <2>8. ASSUME NEW u \in Users, NEW f \in DOMAIN token, NEW t \in DOMAIN token, RevokeSession(u, f, t)
        PROVE  Kept
    BY <2>8, <1>t DEF RevokeSession
  <2>9. ASSUME NEW u \in Users, NEW f \in DOMAIN token, RevokeOtherSessions(u, f) PROVE Kept
    BY <2>9, <1>t DEF RevokeOtherSessions
  <2>10. ASSUME NEW u \in Users, LockExpires(u) PROVE Kept
    BY <2>10, <1>1, <1>u, <1>e, UnlockStep
  <2>11. ASSUME NEW a \in Users, NEW u \in Users, NEW f \in DOMAIN token, NEW b \in BOOLEAN,
                ResetPassword(a, f, u, b)
         PROVE  Kept
    <3>1. acct'[u].ver = acct[u].ver + 1 /\ \A v \in Users \ {u} : acct'[v] = acct[v]
      BY <2>11, <1>1, SMTT(30) DEF ResetPassword, TypeOK, Account
    <3> QED BY <2>11, <3>1, <1>c DEF ResetPassword
  <2>12. ASSUME NEW a \in Users, NEW u \in Users, NEW f \in DOMAIN token, ForceLogout(a, f, u)
         PROVE  Kept
    <3>1. acct'[u].ver = acct[u].ver + 1 /\ \A v \in Users \ {u} : acct'[v] = acct[v]
      BY <2>12, <1>1 DEF ForceLogout, TypeOK, Account
    <3> QED BY <2>12, <3>1, <1>c DEF ForceLogout
  <2>13. ASSUME NEW a \in Users, NEW u \in Users, NEW f \in DOMAIN token, NEW s \in Statuses,
                UpdateStatus(a, f, u, s)
         PROVE  Kept
    BY <2>13, <1>1, <1>u, <1>e, StatusStep
  <2>14. ASSUME NEW t \in DOMAIN token, Refresh(t) PROVE Kept
    <3>1. UNCHANGED <<acct, tenantActive, req, epoch>>
      BY <2>14 DEF Refresh
    <3> QED BY <2>14, <3>1, <1>1, <1>o, RefreshSucceeds
  <2>15. ASSUME NEW t \in DOMAIN token, Logout(t) PROVE Kept
    BY <2>15, <1>t DEF Logout
  <2>16. ASSUME NEW t \in DOMAIN token, TokenExpires(t) PROVE Kept
    <3>1. DOMAIN token' = DOMAIN token /\ UNCHANGED <<acct, tenantActive, req, epoch>>
      BY <2>16 DEF TokenExpires
    <3> QED BY <3>1, <1>o DEF Successors
  <2>17. ASSUME NEW c \in DOMAIN code, CodeStep(c) PROVE Kept
    BY <2>17, <1>t DEF CodeStep, CodeExpires, CodeLeavesWindow
  <2>18. ASSUME NEW b \in BOOLEAN, SetTenantActive(b) PROVE Kept
    <3>1. tenantActive \in BOOLEAN /\ tenantActive # b /\ tenantActive' = b
          /\ UNCHANGED <<acct, token, req, epoch>>
      BY <2>18, <1>1 DEF SetTenantActive, TypeOK
    <3>2. \A v \in Users : Cred(v)' = Cred(v)
      BY <3>1 DEF Cred
    <3>3. UNCHANGED <<Barred, Proofs, OpenSessions, Sessions \ OpenSessions, epoch>>
      BY <3>1, <3>2, ProofsKept DEF Barred, OpenSessions, Sessions
    <3>4. (~tenantActive)' = ~(~tenantActive)
      BY <3>1
    <3>5. Promise!Shut
      BY <3>3, <3>4 DEF Promise!Shut
    <3> QED BY <3>5 DEF Kept, Promise!ContractNext
  <2> QED BY <1>3, <2>1, <2>2, <2>3, <2>4, <2>5, <2>6, <2>7, <2>8, <2>9, <2>10, <2>11, <2>12,
             <2>13, <2>14, <2>15, <2>16, <2>17, <2>18, Zenon DEF Operations
<1>4. Kept
  BY <1>2, <1>3, NextIsOperations
<1> QED BY <1>4 DEF Kept

\* The service implements SessionContract, for any accounts and any requests: no
\* interleaving of reads and transactions opens a session that the contract does not.
\* (withAuthUserTransaction, auth.service.ts)
THEOREM SessionsKeepContract == Spec => KeepsSessionContract
<1>1. Init => Promise!ContractInit
  <2> SUFFICES ASSUME Init PROVE Promise!ContractInit
    OBVIOUS
  <2>1. DOMAIN token = {} /\ tenantActive = TRUE
    BY DEF Init
  <2>2. OpenSessions = {} /\ Sessions = {}
    BY <2>1 DEF OpenSessions, Sessions
  <2>3. Barred = {}
    BY DEF Init, Barred
  <2>4. Proofs = {}
    BY DEF Init, Proofs, Idle
  <2>5. epoch = [u \in Users |-> 0]
    BY DEF Init
  <2> QED BY <2>1, <2>2, <2>3, <2>4, <2>5 DEF Promise!ContractInit
<1>2. SessionInv /\ [Next]_vars => [Promise!ContractNext]_(Promise!contractVars)
  BY ContractStep
<1> QED BY <1>1, <1>2, SessionInvariant, PTL DEF Spec, KeepsSessionContract, Promise!Contract

=============================================================================
