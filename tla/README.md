# SchoolOS: formal models and proofs

TLA+ modules for the parts of SchoolOS whose correctness depends on the order of
concurrent steps, the TLC configurations that check them on small instances, and
TLAPS proofs of what matters most for every value of the constants. Every
definition is translated from the TypeScript sources under `src/`; `PROJECT.json`
names the lines each one stands for.

## 1. The system

SchoolOS is a multi-tenant school ERP. `src/apps/api` is a NestJS service over
PostgreSQL (Prisma) with BullMQ queues on Redis; several API processes may run at
once and each also runs queue workers and cron jobs. `src/apps/web` (Next.js) and
`src/apps/schoolos_mobile` (Flutter, works offline) are its clients;
`src/packages/core` holds shared contracts. All shared state is in the database:
what can go wrong is decided by which reads and writes share a transaction, what
is locked, which updates are conditional, and what is left to a queue.

### Inventory

| Component | State | Operations | What is hard |
|---|---|---|---|
| Accounts, sessions, one-time codes (`auth/`, `users/`) | `User`, `RefreshToken`, `OtpCode`, `Tenant.isActive` | sign-in by password, code or both; lockout; recovery; factor setup; password change; refresh, replay; logout, revocation; reset, forced logout, status | credentials are checked before the row is locked; rotation raced by revocation; mutual deactivation |
| Notification delivery (`communications/`, `notifications/`) | `NotificationDelivery`, BullMQ jobs, provider | dispatch, job runs, manual retry, provider callbacks, cancellation, quiet hours | every `await` is a boundary; lost acknowledgements and replies; stalled workers; callbacks out of order |
| Notices and events (`communications/`) | `Notice`, `NoticeApproval`, `NotificationEvent` | draft, approve, schedule, publish, cancel, expire, archive; fan-out to deliveries | read-then-update transitions raced by an every-minute cron |
| Fees (`finance/`) | `Invoice`, `Payment`, `PaymentAllocation`, `InvoiceAdjustment`, `Refund` | collect, allocate, reallocate, adjust, void, refund, reverse | balances computed from reads outside the lock; two isolation levels; database triggers as last guard |
| Finance approvals (`finance/`) | `FinanceApprovalRequest` | request, approve, reject, claim, execute, finish | exactly one execution; source changed since approval |
| Online payments (`finance/`) | `OnlinePaymentIntent` | create, webhook, browser return, reconcile, settle, defer, close, park | provider silence, late and repeated callbacks, expiry, a cashier on the same invoice |
| Cashier close (`finance/`) | `CashierClose` | submit, approve, reject, reopen | payments posted while a day closes |
| Attendance and offline sync (`attendance/`, `sync/`) | `AttendanceSession`, receipts, conflicts, corrections | submit, sync with idempotency receipt, reconcile, correct | crash between record and receipt; lease expiry; two teachers at once |
| Staff leave, staff attendance (`hr/`) | leave requests, balances, corrections | request, approve, cancel | one debit of the balance |
| Payroll (`payroll/`) | run, lines, holds, bank advice | prepare, approve, finalise, hold, pay, reverse | separation of duties, stale source, hold against payment |
| Ledger (`accounting/`) | journals, fiscal periods | post, reverse, close, reopen | posting against closing |
| Approval workflow (`advanced-operations/`) | request, steps | decide, final action, retry | two decisions on one step; failed final action |
| Admissions, students, guardians | case, student, guardian link, invitation | pipeline, finalise, link, recover, revoke | serializable finalisation; guardian recovery |
| Library, canteen, transport, homework, marks, timetable | records with a status | issue/return, sale, assign, publish | limits checked outside transactions |
| Platform, plans, SaaS billing | tenant, plan, invoice | suspend, reactivate, bill, pay | payment checked without a transaction |
| Roles and permissions, configuration, audit, files, reports, web, shared contracts | – | – | pure evaluation, reads, I/O, presentation |

Interactions: a suspended school (`platform`) refuses every sign-in and turns its
queue jobs into no-ops; an account that changes credentials ends its sessions; a
published notice fans out into deliveries, and its cancellation reaches them only
while they are pending; a payment posts a journal, moves an invoice, and may come
from an online intent; an approved finance request runs a refund or a reversal;
attendance and leave feed payroll.

What makes each component correct, in a line: *sessions* - none outlives the event
meant to end it; *codes* - one usable code per purpose, none older than the
credentials; *delivery* - no unexplained second message, no reopened withdrawal,
progress; *notices* - claimed once, announced when claimed, published only when approved, silent when cancelled; *fees* -
allocations never exceed a payment or an invoice, status agrees with the sum;
*finance approvals* - one execution of what was approved, by somebody else;
*online payments* - money recorded once or as an exception; *attendance* - an
answered submission is the official sheet or kept as a conflict, an answer is final,
a retry is told the truth about its own earlier success; *payroll* - nothing held is paid; *ledger* - no entry in a closed
period. The hazards behind these lines are listed, each at its source line, in
`PROJECT.json`.

## 2. Plan

Written, checked, and with every safety property of their passing runs proved:

| Module | State of it | Next |
|---|---|---|
| `AuthSessions` | shown, and proved, to implement `SessionContract`; sessions, codes, lockout and ownership proved | support-override sessions, the guardian portal |
| `NotificationDelivery` | checked with liveness; duplicates proved for any number of reports, the rest where none come | a bound on what reports that name no attempt may undo |
| `AttendanceSync` | checked with liveness; seven theorems | the lifecycle of a correction and of leave |
| `FeeAllocations` | proved inside the two modules that extend it | the late fee job, fee plans and the issue of invoices |
| `FinanceCorrections` | shown, and proved, to implement `CorrectionContract`; five safety theorems | the cashier close beside it |
| `OnlinePayments` | checked with liveness; five theorems | an abstract specification of "recorded once" |
| `NoticeLifecycle` | checked with liveness; six theorems | events of other sources |

`OnlinePayments` and `FinanceCorrections` each compose `FeeAllocations` with one more
component over the same invoices. `CorrectionContract` is the abstract specification
of money that leaves the school again, `SessionContract` that of who is signed in.

Not begun, in this order: `PayrollRun` (duties, source fingerprint, holds against
payment, advice numbers), the ledger (posting against closing a period), leave and
its balance, guardian access, canteen, SaaS billing, library.

A run stands for an instance, not for a property: it asks of one instance everything
that instance can answer, so there are few runs and most of them check several
properties. Two questions share a run when neither needs a bound the other cannot
afford.

No module that is proved about declares a RECURSIVE operator; parameters are
CONSTANTS with a named assumption; invariants are conjunctions of named parts.

## 3. AuthSessions

Models `AuthService` and the account governance of `UsersService` for one school.

**State.** `acct` is the `User` row: status, `authVersion` (`ver`), password hash
(`hash`, the number of passwords set: a salted hash never repeats), authentication
method, failed attempts, whether a lock is in force, `mustChangePassword`. `token`
and `code` are the `RefreshToken` and `OtpCode` tables in order of creation, a row's
id being its index. `challenge[u]` is the set of versions for which login challenge
tokens are out. `epoch`, `Token.proof` and `Code.ver` are history: they are written
and never read by an action's guard.

**Atomicity.** `withAuthUserTransaction` locks the tenant row and then the user rows
before anything is read, so a transaction of the service is one action. A request
that verified a password, a challenge or a session *before* the lock is kept in
`req[r]` with the credentials it read; its transaction (`RecordFailedPasswordLogin`,
`CompleteAuthenticatedSession`, `IssueOtpEmail`) is a later action that compares them
again. Requests whose transaction repeats all of its reads (refresh, logout,
recovery, factor confirmation, password change, governance) are one action.

**Actions to code.** `Login`, `RequestOtpLogin`, `VerifyOtpLogin`,
`RequestPasswordRecovery`, `RequestMfaSetup` and the operations named above carry
the method names of `auth.service.ts`; `ResetPassword`, `ForceLogout`,
`UpdateStatus` those of `users.service.ts`; `SetTenantActive` is the platform's
suspension and reactivation; `LockExpires`, `TokenExpires`, `CodeExpires`,
`CodeLeavesWindow` are the clock passing a stored time.

**Abstracted.** Hash comparison (a wrong password is the "fail" branch, a right one
the other), e-mail delivery, cookies, audit rows, push tokens, rows from before
families were named. A failed login counter saturates at `MaxFailed`. Permissions
are the constants `Admins` and `Owners`. Requests may be dropped in the sense that
nothing obliges them to reach their transaction.

**Refinement.** `SessionContract` says what the school is promised: a proof of identity
is given while the account is not barred, opens one session at most, and none once the
credentials changed or all sessions were closed; a barred account has no session; what
ended never opens again. Under the mapping in `AuthSessions` a *proof* is a request past
the checks of its reads, for as long as the row still shows the credentials it read;
a *session* is a token family, *open* while one of its rows is live; `closings` is
`epoch`. Then a rotation, a late request whose credentials have changed, and a failure
that is counted are nothing to the contract (stutters), and a replay is an end.
`KeepsSessionContract` is that every behaviour of the service is one of the contract.
It says nothing of codes, and allows an end at any time.

| Run | Instance | Shows |
|---|---|---|
| `auth_sessions` | 1 account (no owner, so it may be suspended), 2 requests, 2 tokens, 2 codes, lockout, rotation | rotation is exclusive, no session outlives the event that ends it, a locked or suspended account has none, ended stays ended, only current credentials lock; one unused code per purpose, none older than the credentials; the session contract is kept |
| `auth_governance` | 2 accounts, both administrator and owner | an owner stays active, however the two act on each other |

The bounds are exact in `AuthSessions.cfg` and `AuthGovernance.cfg`.
Two requests suffice for each property that relates a request to what happened since
its read: every transaction locks the account, so a third request only repeats the
relation of the second to the row. Two tokens give a rotated token and its successor,
or two families; two codes an earlier and a later one of a purpose, or one of each of
two; the three tokens of `auth_governance` a rotated predecessor beside a second
family. One change of `authVersion` is what separates
"before" from "after". No liveness is claimed: the code lets any request fail.

### Proofs (`AuthSessionsProofs`)

For any sets of accounts, administrators, owners and requests, with the named
assumption `ConstantsAssumption` (administrators and owners are accounts, the two
limits are positive):

- `TypeCorrect`: `Spec => []TypeOK`.
- `SessionInvariant`: the inductive strengthening. None of the safety properties is
  inductive alone. That sessions are proved in the current epoch needs to know of a
  *request* from an earlier epoch that it carries an older `authVersion`, since only
  the version is compared: so the invariant says that a request's version never
  exceeds the account's and, if they are equal, so are the epochs. That rotation is
  exclusive needs that a family is named by its first row and that no row names a
  family not yet created, so that a new family is really new.
- `RotationIsExclusive`, `SessionsAreProved`, `ClosingEndsSessions` follow from it;
  `EndingIsFinal` is the action property, proved from the same invariant.

- `CodesAreCurrent`, `ResendReplaces`: no unused code is older than the credentials,
  one at most per purpose. Reactivating an account raises its `authVersion` and spends
  no code; this is safe only since a suspended account has none left, which `CodeInv`
  adds.
- `AnOwnerRemains`: a configuration owner stays active, for any set of owners of whom
  one is active at first. `LocksAreCurrent`: the action property
  `LockoutUsesCurrentCredentials`.
- `SessionsKeepContract`: `Spec => KeepsSessionContract`, step by step: `ContractStep` maps
  each operation to a step of the contract or a stutter, under `SessionInv`. Where the
  two sides differ most is a sign-in: that the family opened is none of the past needs
  the numbering of families, and that its proof is still good needs the relation of
  versions to epochs.

The module has one lemma per helper on rows (what `Revoked`, `Used`, `OpenFamily`,
`Rotated` return and preserve) and one step per action in each preservation proof.

## 4. NotificationDelivery

Models one `NotificationDelivery` row; rows never touch each other.

**State.** `row` is status, `retryCount` and provider message id. `dispatcher`,
`worker[w]`, `operator[o]`, `callback[k]` hold where each piece of code is between
two awaits, with what it has read. `job[a]` is the queue's job
`notification-<id>-<a>`. `notice` is the notice's lifecycle as far as the policy
distinguishes it, `quiet` whether quiet hours hold the row back. `sent` (the attempts
of the accepted messages) and `doubts` are history.

**Actions to code.** `Dispatch*`: `dispatchDelivery` of `communications.service.ts`
(policy, second read, handover, catch block). `TakeJob`, `CheckCurrent`,
`EvaluatePolicy`, `Send`, `MarkDelivery`: `NotificationsProcessor.process` and its
helpers, with the tenant context of `runTenantScopedJob` (a suspended school's job
completes without effect). `Retry*`: `DeliveryRetryService` (read, claim by
compare-and-set, handover). `Callback*`: `recordProviderDeliveryStatus`, whose update
names only the row's id. `CancelNotice`, `ExpireNotice`: the notice operations that
reach a delivery.

**Environment** (external, `Faults` names what a run allows). BullMQ: a job id is
added once for ever, since the code configures no removal of finished jobs and looks
up the existing job first; a job is tried `Tries` times; a stalled run loses its lock
and the job runs again once, while a slow worker may go on without the lock. The
provider may accept a message whose reply is lost, refuse it, and report SENT,
DELIVERED or FAILED late, repeatedly and in any order. Consent, links and provider
settings may change at any time (`withdraw`). Rate limits and backoff delays are
not timed.

| Run | Instance | Shows |
|---|---|---|
| `delivery_faults` | 2 operators, 2 workers, every fault of queue, provider and policy | each doubt costs at most one message; SENT only of an attempt the provider accepted; cancelled or skipped is never reopened |
| `delivery_progress` | 2 workers, 1 operator, a provider report, lost acknowledgements, refusals, withdrawn consent, a quiet night; weakly fair dispatcher, workers, clock | an attempt whose job is queued resolves |
| `delivery_terminal` | 2 provider reports | **violated**: DELIVERED is overwritten |

Bounds: `Tries = 2` instead of 3 (one repetition is what matters), one completed
manual retry (so that an operator or a worker is late by one attempt, next to one
that is current), up to two messages (one more than the property allows without a
doubt), one night in the run about progress and none elsewhere. `CHECK_DEADLOCK
FALSE`: a delivery ends. `SYMMETRY` is used in safety runs only.

**Fairness** (`FairSpec`): the process finishes the dispatch it began, BullMQ worker
loops take waiting jobs and finish runs, delayed jobs become due, quiet hours end.
Nothing is assumed of operators, providers' reports or faults. Progress is promised
for attempts whose job *reached the queue*: the code does not promise it otherwise (a
process that dies between claim and handover leaves RETRY_PENDING, which no retry
accepts, and the job of a suspended school is consumed without effect).

**Reading the results.** `doubts` counts the events after which the code knowingly may
send again: a lost reply, a stalled run, a failure reported by the provider, and a
manual retry claimed while a worker is past its check. The last is a property of the
design: FAILED is written before the queue's own next try, so a manual retry can
overtake it; only the check at the start of a run stops the older attempt.

**Finding.** `DeliveredIsTerminal`: `resolveDeliveryStatusTransition` calls DELIVERED
terminal and a test says delayed callbacks are ignored after it, but the decision is
taken on a read and the update is unconditional; two callbacks that both read SENT
leave FAILED or SENT over DELIVERED.

### Proofs (`NotificationDeliveryProofs`)

For any workers (finitely many), operators, reports, faults and bounds:

- `DeliveryTyped` and `DuplicatesAreExplained`: `Spec => []NoUnexplainedDuplicate`, *with*
  provider reports, so for more than `delivery_faults` checks. The argument counts: the
  messages accepted and those that may still come without a new doubt (`Chances`: one
  per run that may still send, and one if the row's attempt may yet start) are together
  at most one more than the doubts (`MessagesCounted`). It needs `AttemptsReached`: no job,
  run or retry is of an attempt the row has not reached. Every step keeps the sum, moves
  one from the chances to the messages, or pays with a doubt; there is one lemma per
  kind (`CountKept`) and one per action.
- `WithdrawnForGood` (`WithdrawnStaysWithdrawn`) and `SentIsAccepted` (`SentWasAccepted`), both
  where no provider reports come (`Callbacks = {}`, as in `delivery_faults`). With reports
  neither is true: a report names the row, not an attempt, and overwrites what it finds.
  `WithdrawnForGood` is about the row's status: no worker, dispatch or retry changes it. A
  worker that passed its check before the withdrawal may still hand over its message.

`AttemptsResolve` is liveness and model-checked.

## 5. AttendanceSync

Models the daily attendance of one class on one day: `submitAttendance` (by POST, by
`submitDraft`, and under `syncAttendance`), the receipts of offline drafts, and the
operations that act on the result.

**State.** `session` is the `AttendanceSession` row, unique per class and day: no
sheet, an unmarked sheet (made by the cutoff or by a correction of a day without
one), or an official one; `by` is the submission whose marks are official, `altered`
whether leave, a correction or an override changed a mark since, `flag` the conflict
status, `locked` whether the edit window has passed. `receipt[d]` is the
`AttendanceSyncSubmission` row of draft `d` with its lease (a counter in place of the
timestamp the code compares) and the conflict it is linked to. `conflict` is the table
of conflict rows in order of creation. `proc[p]` is a request between two awaits, with
what it read (`seen`, `lease`, `conflict`); `reviewer` is a review between two of its
statements, which share no transaction. `overdue` and `abandoned` are the two clocks of a receipt:
the 2-minute lease and the 15 minutes after which a receipt may be worked on
although no sheet exists.

**Actions to code.** `ReceiveDraft`, `Reserve`: `syncAttendance` up to the insert
of the receipt, `Replay` for whoever finds one. `ReadSession`, `Submit`,
`RaceConflict`, `RaceFlag`, `RaceReadBack`: `submitAttendance` - its checks, its
transaction, and the handler of the unique-index violation, which is three statements.
`LinkConflict`, `Complete`, `Refuse`: `processAttendanceSyncReservation`.
`Reconcile`, `Confirm`, `Renew`: `reconcileAttendanceSyncReservation`. `Crash` ends a
request at any step, which stands for the process dying and for any database error
that is answered by a 503. `ReviewConflict`, `ReviewReceipts`, `ReviewSession`;
`OverrideSession`, `OverrideReceipts`; `ApproveCorrection`; `RunCutoff` carry the
names of the operations. `LockPasses`, `LeaseExpires`, `ReceiptAges` are time.

**Faults** (`Faults` names what a run allows): `refuse`, a scope, authority fence or
roster check fails when the request is processed; `change`, leave, corrections and
overrides; `review`; `cutoff` and `earlyCutoff`, the cutoff after and before its hour (the operation takes
any date and hour from its caller); `slow`, a request outlives its 2-minute
lease. No request lives longer than 15 minutes; without `slow`, none longer than its lease.

| Run | Instance | Shows |
|---|---|---|
| `attendance_change` | 1 draft, 1 web draft, 2 requests, 1 death; leave, corrections, overrides, reviews, refusals, cutoff, requests that outlive their lease | answered drafts are kept, ACCEPTED means official, an official sheet keeps its submission, a late request never replaces a decided receipt |
| `attendance_progress` | 2 drafts, 1 death; leave, corrections, overrides, refusals, cutoff; fairness | every receipt is decided; REJECTED means not official and a retry conflicts with itself only after the sheet changed |
| `attendance_immutable` | early cutoff | **violated**: an official sheet is overwritten |

Bounds: two requests at a time, since each property relates one request to what
another did between its steps; one death gives a retry; a lease counter of 3 gives a
renewed lease beside a stale one and one that is renewed again; one override (a second
repeats the first) and conflict rows up to one per submission and the override's. With
a draft and a direct submission each may be the winner and the loser of the unique
index, and so may two drafts.

**Fairness** (`FairSpec`): the API works on requests it took, time passes, and a
client sends an undecided draft again (strong fairness, because a free slot is
only repeatedly available). The mobile and web queues keep a draft until it is
answered. The deaths are bounded: a request that dies every time decides nothing.

**Reading the results.** Three things the runs show that a reader may not expect. A
retry that follows a death after the commit recognises its own sheet only by its
marks: if leave or a correction changed one meanwhile, it becomes a conflict with
itself, or is refused if its checks now fail, although its marks are official
(`SelfConflictOnlyAfterChange` and `RejectedIsNotOfficial` say that this is the only
way). A draft is linked to the *latest* conflict of the sheet, which may be another
submission's. And a review that completes between the conflict and the read-back
lets the draft be answered ACCEPTED with no conflict linked, which is why
`AcceptedIsOfficial` excepts reviewed sheets. `RejectedIsNotOfficial` is not claimed
for slow requests: the lease is checked when the receipt is written, not when the sheet is.

**Finding.** `OfficialIsImmutable`: a comment says that submitted attendance is
immutable through ordinary marking and offline replay. The transaction updates by id
a sheet it read as unmarked *before* it began. After a cutoff before its hour the
unmarked sheet is open, two requests both read it so, and the second overwrites the
official marks of the first, whose client was told ACCEPTED.

### Proofs (`AttendanceSyncProofs`)

For any sets of submissions and requests and any bounds, from `ConstantsAssumption`
(drafts and direct submissions are disjoint, the bounds are numbers):

- `TypeCorrect`: `Spec => []TypeOK`, through `TypeInv`, which adds that conflict rows
  and leases stay within their bounds, that only a lease below its bound is overdue,
  and which steps only a draft's request can be at.
- `DecidedIsFinal`: the action property `DecidedReceiptIsFinal`, from `TypeInv` and
  `ReviewsHaveConflicts` (a CONFLICTED receipt is linked to a conflict; a review has
  one). Lemma `ReceiptStep` says all that a step can do to a receipt.
- `OfficialStays` and `AnsweredKept`: under `OrdinaryMarking` (no cutoff before its
  hour, no submission by a holder of the lock override) an official sheet keeps its submission and the marks of
  an answered draft are kept. So the finding needs one of the two. The argument is
  that an unmarked sheet is then locked (`SheetInv`), so no request ever carries "read as
  unmarked" into its transaction; hence what is saved stays saved (`SavedStays`), each
  request that is past its transaction carries saved marks (`SureAreSaved`), and only
  those decide (`AnsweredAreSaved`). None of these is inductive alone.

- `AcceptanceIsTrue`: `AcceptedIsOfficial`, under `OrdinaryMarking`. A draft accepted
  without a conflict is the official sheet, or a reviewer acted on the sheet; hence
  no reconciliation takes another submission's sheet for its own (`AcceptInv`).
- `RejectionIsTrue` (`RejectedIsNotOfficial`) and `RetriesKnowThemselves`
  (`SelfConflictOnlyAfterChange`), under `OrdinaryMarking` and `Punctual` (no request outlives
  its lease), which both hold of `attendance_progress`. `LeaseInv` says that at most one
  request works on a draft and holds its lease in time, while one that
  reconciles holds a lease that ran out. `MarksInv` adds that once the sheet is official
  no request is left that could still refuse or preserve that sheet's own submission,
  unless the sheet was changed.

These three rest on `Move`, a relation of steps that says of a request only what it may do
to its receipt, the sheet and the conflicts. Lemma `EveryStepIsMove` is proved once, one
step per action; each invariant is then proved against `Move`. Two hypotheses are
needed because the code needs them: an early cutoff or an override breaks what the
finding says, and the lease is not checked when the sheet is written.
`DraftsAreDecided` is liveness and model-checked.

**Abstracted.** The marks themselves (a submission stands for its marks), rosters and
scope checks (the choice `refuse`), the authority fence of `sync/` (likewise),
notifications, audit rows, and the upkeep of web drafts.

## 6. Fees and finance approvals

`FeeAllocations` models the requests that move money between payments and invoices;
`FinanceCorrections` extends it with refunds and reversals by maker and checker;
`CorrectionContract` says what the second promises.

**State.** `inv[i]` is an invoice (status, total, number of adjustments), `pay[p]` a
payment (status, amount, refunds), `alloc[p]` its allocation rows, oldest first: a row
is an amount on an invoice or on the advance, negative when money moves away.
`op[w]` is a request between the reads it makes outside its transaction and the
transaction, with what it read. `req[r]` is a `FinanceApprovalRequest` with its
decisions. `policy` counts the active approval policies (none at first: the code then asks
for one approval) and keeps the approval count of the newest.

**Atomicity.** The handlers of `FeeAllocations` run READ COMMITTED: `Read…` takes the
reads outside, and the transaction is one action, since it locks the rows it touches
before it reads them again. Whatever the code does *not* read again it takes from
`op[w]`: the total an adjustment computed, the total a reallocation saw. The triggers
of the migration `phase7_payment_allocation_invariants` are the guards
`AllocationGuard` and `InvoiceTotalGuard`; a refused row is `RollBack`, as is a process
that dies. Corrections run SERIALIZABLE: `TakeSnapshot` is the first statement, with
the decisions made on it, and `Execute` the writes and the commit. PostgreSQL refuses
the transaction when it reaches a row written after the snapshot, and is silent when
the row was only locked; so a transaction that wrote rows tells them to the open
snapshots (`Told`), and `Execute` requires that none of those it touches is `stale`.

**Actions to code.** They carry the names of the methods of `finance.service.ts`;
`Review`, `Approve`, `Reject` are `transitionFinanceRequest` with the duties of
`finance-request.policy.ts`, `ReadExecute`, `TakeSnapshot`, `Execute` are
`refundPayment` and `reversePayment` with `claimFinancialExecution` and
`finishFinancialExecution`. `CreatePolicy` is `createPolicy` of the approval workflows,
which is also how a policy changes: it leaves the older ones active, and
`financeCorrectionPolicy` refuses to choose among several (`OnePolicy`). So the first
policy outdates the requests that were made without one, and after the second nothing
can be requested, reviewed, approved or executed; a request can only be rejected. No
method deactivates a policy of this kind.

**Refinement.** `KeepsPromise` is the specification of `CorrectionContract` under the
mapping in `FinanceCorrections`: what was *returned* of a payment is what its
allocation rows no longer keep; a correction is *granted* while its request is
APPROVED and *carried out* once EXECUTED. Hence each step of the rows, the payment
and the request at once is a receipt, a grant, a withdrawal, one return of the granted
amount, or nothing to the contract.

| Run | Instance | Shows |
|---|---|---|
| `finance_corrections` | 1 payment of 2 over two invoices of 2, one of them adjustable and voidable, 2 workers, 1 request, 4 users, 1 approval, up to 2 policies, 1 reallocation key | no invoice is credited beyond its total; rows, refunds and payment status agree; maker, reviewer, approver and executor differ; the status tells the balance; the contract is kept |

Bounds: two workers, since each property relates one request to what one other did
between its read and its transaction; a payment of two units over two invoices gives
a split receipt, an advance, a partial refund and one that crosses a row; four users
are what the duties need and one short of a second approver; the first policy outdates a
request, the second blocks it. That a second payment on the same invoice is refused is
not in this run, which has one payment that two workers collect; the theorem
`NeverOverpaid` covers any number of payments. `CHECK_DEADLOCK FALSE`: all money may have been used.

**Reading the results.** `StatusTellsBalance` is claimed of invoices that nobody adjusts
or voids and that no online payment settles: for those the code recomputes the status
from rows read under the lock. Four things follow from the code and are part of the
model, but contradict no run, since the code does not prevent them: two concurrent
adjustments lose one line from the total (the phase-7 register, row F12, says that the
total is the sum of the lines); an adjustment that read the invoice before a void
writes its status over VOID; and a reallocation only locks the payment row, so a
correction may execute after allocation rows that are not those of the approved
fingerprint (`src/claude/PHASE_7_EDGE_CASE_REGISTER.md:50` asks for a recheck of the
source). The amounts are kept (`KeepsPromise`), the source is not. The fourth is what this
does to the advance: an executor that read its plan from the advance, and took its
snapshot, does not see the reallocation that then moves the advance to an invoice. It
takes the same money from the advance again, which becomes negative, while the invoice
keeps a credit of money that went back to the payer. No trigger looks at the advance.
`TypeOK` therefore says that no *invoice* has a negative part of a payment and that
refunds stay within the payment; stated of the advance as well, TLC refutes it with
two workers.

The late fee job (`calculateLateFeesForTenant`, `finance.service.ts:6041-6178`) is not
modelled. It is one more writer of the class of adjustments: its transaction is READ
COMMITTED, reads the invoice without a lock, adds a line and writes total and status
from that read. An invoice it may reach is one of `Adjustable`, of which `StatusTellsBalance`
says nothing, and the trigger on the total guards its write as it does theirs.

### Proofs (`FeeAllocationsProofs`, `FinanceCorrectionsProofs`)

For any finite sets of invoices and payments, any requests, users, amounts and bounds,
from `FeeAssumption` and `CorrectionAssumption`:

- `FeeInv`, in `FeeAllocationsProofs`, is what every request that moves money keeps: a
  payment's rows sum to what it brought less what was refunded, which is no more than it
  brought, no invoice holds a negative part of a payment, no invoice is credited with more than its total. One lemma
  per operation (`CollectKeeps`, `ReallocateKeeps`, `AdjustKeeps`, ...); the next section
  uses the same lemmas.
- `CorrectionInv` adds what refunds and reversals need: what an open request returns is
  still there (`Covered`), since a payment has one open request; and what an
  executor holds between its reads and its commit is still fit to be written unless
  it was told otherwise (`ExecutionsHold`).
- From it: `CorrectionsTyped`, `NeverOverpaid` (`InvoicesNotOverpaid`), `PaymentsAlwaysBalance`,
  `AlwaysFourEyes`, and `StatusAlwaysTellsBalance`, whose own strengthening relates the
  status of an invoice to its rows while a correction is between snapshot and commit.
- `CorrectionsKeepPromise`: `Spec => KeepsPromise`, the refinement of `CorrectionContract`.

Sums over rows and over payments are recursive functions and folds. The library's induction
theorems cannot be used with these provers; the laws needed (a sum exists and is unique,
of a concatenation, of negated rows, of one payment changed) are proved
by unfolding the function one step and, where all lengths are meant, by taking
the least length at which the law would fail (`LeastNatural`). For this, plans, sums and
the order of invoices are recursive functions, not RECURSIVE operators.

## 7. Online payments

`OnlinePayments` extends `FeeAllocations` with intents and their settlement: a cashier
works on the invoice that the online payment is for.

**State.** `intent[x]` is the `OnlinePaymentIntent` row; `parked` is its exception mark,
`ref` the provider's reference, `started` whether the call that initiates the checkout
has ended. `prov[x]` is the payment as the provider knows it, `clock[x]` the age of the
intent as far as the code compares it (fresh, ten minutes, past expiry), `active` whether
the school is in good standing. `rested[x]` says that the row was not written for ten
minutes (`updatedAt`): every write renews it (`Write`), a deferred verification too, a
transaction that rolls back does not. `crowded[x]` says that a hundred other open intents,
of any school, have an older `updatedAt`. `batch` is what the running sweep has taken
and not yet verified, each with the age it had when the sweep began, since the sweep
passes its own time to every verification. `job[v]` is a verification between two awaits.

**Actions to code.** Creation is `createOnlinePaymentIntent` (the row, then
`InitiationReady`, `…Refused` or `…Uncertain`). `StartSweep` is the query of
`reconcileStaleOnlinePaymentIntents`: open, not parked, of an active school, not written
for ten minutes, the oldest write first, a hundred at most (`Candidate` and not
`crowded`); `Reconcile` is one round of its loop, which catches the errors of each. `Callback`,
`ClientConfirm` and `Reconcile` all start `verifyAndSettleOnlinePaymentIntent`, which then runs in stages:
it reads the intent and the time, `Answered` or `Unavailable` is the provider's answer
judged by what was read *before* the question (`Verdict`), and `Defer`, `Close`,
`Mismatch` or the settlement (`AlreadyPaid`, `NotYetPaid`, `ReadRoom`, `Settle`) act
on it. `Abandon` is a rolled back transaction or a process that dies.

**Assumptions on the provider.** It takes no money after the expiry it was given, its
last word is final, and the initiation call ends (15 s timeout) before the intent is
stale (10 minutes). Callbacks may be lost, repeated, late and may claim anything.

| Run | Instance | Shows |
|---|---|---|
| `online_payments` | 1 intent, the sweep and one other verification at a time, 1 cashier with an advance, suspension of the school | credit only for money the provider confirmed; settled exactly if the payment exists; no money behind a closed intent; every intent ends that the sweep reaches |
| `online_sweep` | 1 intent, the sweep, 1 cashier | **violated**: an intent the sweep never ends |

Bounds: one intent, since intents meet only on the invoice, where the cashier stands for
the other; two verifications, as each property relates one to what another did
between its steps; one unit of money, since amounts matter only by fitting or not. The
hundred intents of a sweep are not counted: `crowded` comes and goes as it likes, which
is all that the others do to this one.

**Fairness** (`Spec`): time passes, the initiation call returns and the scheduler starts
sweeps (weak). What is possible in sweeps again and again succeeds some time (strong): the
sweep comes to an intent in its batch, the provider answers, the state of the school and
the invoice are read, and the write that concludes is done. So the provider may be
silent and the process may die any number of times, but not for ever. The last of these
assumes of a settlement that nothing outside the model refuses it for ever, as a school
without an open fiscal period would (the ledger posting belongs to its transaction);
the refusal of the allocation trigger is in the model and is no exception to it. Nothing
is assumed of callbacks, customers or cashiers.

**What the sweep does not promise.** `EveryIntentEnds` holds of an intent that is `Reached`.
Its two premises are what the query needs and the code does not ensure. *Postponed*: a
callback or a browser that asks and hears nothing final renews `updatedAt`
(`deferOnlinePaymentVerification`), so that the sweep passes the intent over for ten
more minutes; repeated for ever, the sweep never comes, the expiry included. *Crowded*: settlements that
are refused each time roll back, renew nothing and stay at the front of the order; a
hundred of them keep all later intents from ever being taken. Without either premise TLC
finds an intent that stays open for ever.

**Finding.** `SweepEndsEveryIntent`: the settlement computes the room on the invoice from
payments whose `invoiceId` names it. Parts of a receipt over several invoices, and an
advance allocated later, are not seen; if they fill the invoice, the check passes, the
allocation trigger refuses the row, and the error is rethrown. The sweep repeats that
every time; the money is neither settled nor parked for a person, although a comment
says it is never dropped silently. `EveryIntentEnds` excepts exactly that credit
(`HiddenCredit`). The status the settlement writes on the invoice is as stale.

### Proofs (`OnlinePaymentsProofs`)

For any intents, verifications and cashiers: `OnlyPaidMoneyIsCredited` (`CreditedMoneyWasPaid`),
`AlwaysSettledIffPaid` (`SettledIffPaid`), `NoMoneyBehindClosed` (`ClosedWasNotPaid`),
`SettlementsNeverOverpay` (`InvoicesNotOverpaid`, here beside cashiers) and `OnlineTyped`. The
invariant `OnlineInv` is `FeeInv` with two parts: of an intent, that a closed one can
never be paid any more (the provider said no, or there is no checkout and none
comes, or it is past its expiry), and that SUCCEEDED and the payment go together
(`IntentHolds`); of a verification between two awaits, that what it read is still true
when it acts (`JobHolds`), although it read the intent and the time before it asked.
That is where the assumptions on the provider enter. Any number of verifications of one
intent are covered; `EveryIntentEnds` is liveness and model-checked.

## 8. Notices

`NoticeLifecycle` models `CommunicationsService` from draft to archive, the approval of
high-impact notices, the Principal app that submits them, the intake of a published
notice, and the every-minute cron.

**State.** `notice[n]` is the `Notice` row, `event[n]` and `rows[n]` its notification event
and deliveries, `approval[n]` the `ApprovalRequest` about it. `proc[p]` is a handler (of
a request, or the cron's run) between two statements, with what it has read. `past[n]`
is history (how often it was claimed or reopened, whether an intake was lost, a write
raced an announcement, an edit raised its priority beside another handler, an approval
was given) and `spent` counts what the bounds limit.

**Atomicity.** No handler here has a transaction around its read and its write. `Call`
is the read with the handler's checks, `Write` the write by id (`Put`). Only
`publishPreparedNotice` writes conditionally (`Claim`, on the status it read and
`publishedAt` null), after a preview of the recipients that must find somebody eligible: what it
finds is a choice (`Previews`), since recipients change at any time and the preview may
fail. `publishNotice`, the way of app submissions and of approvals,
announces first and writes PUBLISHED last. `Accept` is the event service, which takes
a notice only if it is PUBLISHED at that moment; `RecordDeliveryRecords` is the
fan-out. Whether an error of the listener reaches the publisher is the event library's
affair and left open (`ListenerFails`). The cron looks for schools with work, finds an
active user of the school to act for (`ResolveSystemActor`; without one, or when the
school was suspended meanwhile, it is skipped), reads what is due and publishes one
notice after the other (`ProcessScheduledNotices`), without a handler around each. The
upsert of the event's mark is not awaited and belongs to the recording.

**Abstracted.** EMERGENCY is guarded as URGENT is; an edit sets the priority or an expiry;
who the recipients are, provider failures, templates and acknowledgements are left out.

| Run | Instance | Shows |
|---|---|---|
| `notices` | 1 notice with every request, a second one that is due, 2 requests and the cron at work, 2 requests after the creation, 1 death or failed intake | a claim is not repeated; a claimed notice has deliveries; a cancelled notice is silent, unless a stale write brought it there; a high-impact notice had its approval; what is due is handled where the school has an active user and its due notices have recipients |

Bounds: one approval request of one step; two operations on top of the creation are
what a race needs (each property relates a stale write to one other), one fault is what
loses an announcement. More operations than the run allows do add cases: two stale writes
may follow one another (below, *a cancellation restored*). The theorems cover any number.
`CHECK_DEADLOCK FALSE`: a notice may rest.

**Fairness** (`FairSpec`): the cron's steps only; the scheduler calls it every minute.
Nothing is assumed of people. A cron that dies is called again. `DueIsHandled` has a
premise (`Served`): from some time on no run is skipped for want of a user (`Skipped`) and
none ends because a notice that it could publish has no recipients or a failing preview
(`Unreached`). Each of the two is needed: without it TLC finds a notice that is due for
ever.

**Reading the results.** The properties name what the code does not exclude, and each
exception is reachable:

- *Announced before published.* A high-impact notice that `publishNotice` sends for the
  first time, from the app or by its approval, is offered while it is DRAFT or
  APPROVED. The event service refuses it, so it becomes PUBLISHED and reaches nobody.
  `ClaimedIsAnnounced` is therefore about claims only. The comment at
  `communications.service.ts:712-715` says why the claim comes first in the other
  path, and the test at `communications.service.spec.ts:1646` expects delivery to the inbox.
- *A stuck cron.* An approved high-impact notice that was then scheduled is SCHEDULED,
  which `publishPreparedNotice` refuses; so is a due notice past its expiry. The error
  ends the school's run before the remaining notices and before the expiries, every
  minute. `DueIsHandled` excepts that (`Blocked`). A due notice of ordinary priority that
  nobody is eligible for is refused in the same way (409, as the test at
  `communications.service.spec.ts:1602` expects of a request) and stops the others as long
  as it has no recipients; that is the premise `Served`.
- *Writes by id.* A schedule decided before a publication reopens the notice
  (`reopened`), a cancellation or archive decided before it lands on a published one
  (`raced`), an edit raises the priority of one that is already on its way (`raised`).
- *A cancellation restored.* An archive that read CANCELLED keeps that as what the notice
  is restored to. If a schedule decided before the cancellation is written in between
  and the notice is published, the late archive and a restore make a CANCELLED notice
  whose deliveries are queued. This takes five operations on one notice, more than the
  run's bounds; the proof of `CancelledIsSilent` failed there, and TLC showed the
  behaviour once the bounds were widened. The history `misfiled` marks such an archive and
  `CancelledIsSilent` excepts it, as it excepts `raced`.
- *Approval.* Approve and reject on the same step may both commit. A notice that the app submits
  again after its decision is put back to APPROVAL_PENDING, where nobody can decide
  it; a rejection leaves it there too.

### Proofs (`NoticeLifecycleProofs`)

For any sets of notices, requests and crons and any bounds:

- `ClaimedOnce`: `Spec => []PublicationsAreClaimed`. The property is not inductive: what
  makes it so is that as many claims as reopenings and one more leave the notice with
  `publishedAt` set (`ClaimInv`), which a claim requires to be null and only a counted
  write clears.
- `NoticesTyped`, `ClaimsAreAnnounced` (`ClaimedIsAnnounced`), `CancellationsAreSilent`
  (`CancelledIsSilent`) and `NoUnapprovedAlarm` (`HighImpactWasApproved`) follow from
  `NoticeInv`. No handler has a transaction, so each part speaks of what handlers have
  read and not yet written: which steps only an approval leads to and what
  they may still do to a notice (`Vetted`); that a cancelled notice, in the archive too,
  has no queued delivery and nobody who owes it an announcement (`Silent`); that a claim
  without deliveries is still PUBLISHED and owed one (`Heard`).

A handler's step is a walk (it writes no notice) or a write. Lemmas `Walks` and `Writes`
say what either must do for `NoticeInv` to be kept, one lemma per handler shows that it
does; `PutFacts` says what `Put` does to a notice and to its history.

## 9. What is proved, what is only checked

Proved, for every value of the constants that meets the named assumptions
(`PROJECT.json`, "theorems"): every invariant and every safety action property that a
passing run checks, the type invariants among them, and both refinements. Seven modules
hold the proofs, one per component. What a theorem assumes beyond the assumptions on
the constants, it says itself:

| Hypothesis | Theorems | Why it is there |
|---|---|---|
| `OrdinaryMarking` | `OfficialStays`, `AnsweredKept`, `AcceptanceIsTrue` | false with an early cutoff (run `attendance_immutable`) or an override of the lock |
| `OrdinaryMarking`, `Punctual` | `RejectionIsTrue`, `RetriesKnowThemselves` | the lease is not checked when the sheet is written |
| `Callbacks = {}` | `SentIsAccepted`, `WithdrawnForGood` | a provider's report overwrites the row's status unconditionally |

The instances of the runs that check these properties meet them. Type invariants say what
they say and no more: `CorrectionsTyped` bounds refunds by their payment and what a payment
has on an invoice from below, and says nothing of advances.

Model-checked only:

- *liveness*: `AttemptsResolve`, `DraftsAreDecided`, `EveryIntentEnds`, `DueIsHandled`. Fairness
  and ENABLED are out of the prover's reach;
- the three properties that runs show violated.

Induction over data is not available as a library theorem; where a law about sums or
orders of any length is needed, the proof takes a least counterexample (section 6).

The proofs changed the models in three ways. Sums, plans and orders became functions. The
constants' assumptions say that invoices, payments and workers are finitely many. And
`CancelledIsSilent` gained the exception `misfiled`, a behaviour of the code that the
bounds of the run do not reach (section 8).

## 10. Not modelled

`PROJECT.json` lists every component with its reason. In short: payroll, ledger, leave,
guardian access, canteen, SaaS billing and library have protocols worth a module and are
next in the plan; in finance, the cashier close, the issue of invoices and
discounts are left out; profile and reference data, reports, permission evaluation,
timetable search, files, configuration and the two clients have no protocol of their
own or are reads, pure functions and presentation. Timing is kept to "has passed /
has not".

Most of the repository's lines are such records, screens, schema and seed data, in which
no step of one actor depends on when another takes its own. The share of lines the map
covers is therefore small.

## 11. Running

    tlc -workers 2 -config NoticeLifecycle.cfg MCNoticeLifecycle.tla
    for m in AuthSessions NotificationDelivery AttendanceSync FeeAllocations \
             FinanceCorrections OnlinePayments NoticeLifecycle
    do tlapm ${m}Proofs.tla; done

`PROJECT.json` names the module and the `.cfg` of every run. Each MC module holds the
instance sets of its `.cfg` files. The operators marked "Seeded fault" are variants of
the definition after them, used to confirm that each property depends on the code it
is about (`mutants` in `PROJECT.json`).
