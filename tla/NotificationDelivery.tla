------------------------ MODULE NotificationDelivery ------------------------
(***************************************************************************)
(* One NotificationDelivery row from the insert to the provider and back:  *)
(* the first dispatch (CommunicationsService.dispatchDelivery), the        *)
(* notifications queue and its workers (NotificationsProcessor), the       *)
(* operators' retries (DeliveryRetryService), the provider's status        *)
(* callbacks (M10HardeningService) and the cancellation of the notice.     *)
(*                                                                         *)
(* Every await of the code is a boundary between two steps here.  Rows are *)
(* independent of each other, so one row is the whole model.  The BullMQ   *)
(* queue and the provider are external: a job is added once per id, runs   *)
(* at least once and is tried Tries times; the provider may accept a       *)
(* message although its reply is lost, and calls back in any order.        *)
(***************************************************************************)
EXTENDS Naturals, Sequences, FiniteSets

CONSTANTS Workers,     \* notification workers of all API processes
          Operators,   \* retry requests in flight
          Callbacks,   \* provider status requests in flight
          Tries,       \* attempts of a job: 3 in notifications.service.ts
          MaxAttempt,  \* bound: retryCount
          MaxMessages, \* bound: messages the provider accepts
          MaxNights,   \* bound: quiet-hours periods
          Faults       \* which of FaultKinds may happen

FaultKinds == {"lostAck", "lostReply", "reject", "stall", "suspend", "withdraw"}

ASSUME ConstantsAssumption ==
  /\ Tries \in Nat \ {0} /\ Faults \subseteq FaultKinds
  /\ IsFiniteSet(Workers)
  /\ MaxAttempt \in Nat /\ MaxMessages \in Nat /\ MaxNights \in Nat

VARIABLES
  row,        \* status, retryCount (attempt) and providerMessageId (msg, 0: null)
  job,        \* job[a]: the queue's job notification-<id>-<a>
  dispatcher, \* the step dispatchDelivery is at
  worker,     \* worker[w]: the job run in progress
  operator,   \* operator[o]: the retry in progress
  callback,   \* callback[k]: the provider status request in progress
  notice,     \* Notice.lifecycleStatus as far as the policy tells it apart
  quiet,      \* quiet hours hold the delivery back (never a mandatory or critical one)
  nights,     \* quiet-hours periods so far
  sent,       \* history: the attempts of the messages the provider accepted
  doubts      \* history: events after which a second message may be due

vars == <<row, job, dispatcher, worker, operator, callback, notice, quiet, nights,
          sent, doubts>>

Attempts == 0..MaxAttempt
Statuses == {"QUEUED", "RETRY_PENDING", "SENT", "DELIVERED", "FAILED", "CANCELLED",
             "SKIPPED"}
Pending == {"QUEUED", "RETRY_PENDING", "FAILED"}  \* PENDING_DELIVERY_STATUSES
Messages == 0..MaxMessages

Idle == [pc |-> "idle"]
Job == [st: {"none", "waiting", "delayed", "active", "done", "dead"},
        tries: 0..Tries, stalled: BOOLEAN]
\* owns: the worker holds the job's lock.  result: the status to be marked.
Run == [pc: {"check", "policy", "send", "mark"}, attempt: Attempts,
        result: {"SENT", "FAILED", "SKIPPED", "RETRY_PENDING"}, msg: Messages,
        owns: BOOLEAN]
Retry == [pc: {"claim", "handoff"}, attempt: Attempts]
Report == [pc: {"write"}, incoming: {"SENT", "DELIVERED", "FAILED"}, msg: Messages]

TypeOK ==
  /\ row \in [status: Statuses, attempt: Attempts, msg: Messages]
  /\ job \in [Attempts -> Job]
  /\ dispatcher \in {"policy", "recheck", "handoff", "unconfirmed", "done"}
  /\ worker \in [Workers -> {Idle} \cup Run]
  /\ operator \in [Operators -> {Idle} \cup Retry]
  /\ callback \in [Callbacks -> {Idle} \cup Report]
  /\ notice \in {"PUBLISHED", "EXPIRED", "CANCELLED"}
  /\ quiet \in BOOLEAN
  /\ nights \in 0..MaxNights
  /\ sent \in Seq(Attempts)
  /\ doubts \in Nat

-----------------------------------------------------------------------------
(* The compare-and-set of each writer *)

\* initialAttemptWhere
FirstAttempt == row.status = "QUEUED" /\ row.attempt = 0

\* where-clause of markDelivery, and the check a worker starts with
\* Seeded fault: retryCount is not compared
OpenForAny(a) == row.status \in Pending
\* Seeded fault: status is not compared
OpenForAttempt(a) == row.attempt = a
OpenFor(a) == row.attempt = a /\ row.status \in Pending

\* where-clause of the claim in dispatchRetry
\* Seeded fault: retryCount and status are not compared
ClaimableAnyhow(a) == TRUE
Claimable(a) == row.attempt = a /\ row.status \in {"FAILED", "QUEUED"}

\* queue.add: an existing job id is left alone
Enqueued(a) == IF job[a].st = "none"
               THEN [job EXCEPT ![a] = [st |-> "waiting", tries |-> Tries, stalled |-> FALSE]]
               ELSE job

\* evaluateDelivery: a notice that left PUBLISHED is never delivered; a
\* recipient's status, link and preference may forbid it at any time
PolicySkips == notice # "PUBLISHED" \/ "withdraw" \in Faults

-----------------------------------------------------------------------------
(* dispatchDelivery *)

\* Policy, destination and provider readiness
DispatchPolicy ==
  /\ dispatcher = "policy"
  /\ \/ /\ \/ PolicySkips /\ row' = IF FirstAttempt THEN [row EXCEPT !.status = "SKIPPED"] ELSE row
           \/ "reject" \in Faults /\ row' = IF FirstAttempt THEN [row EXCEPT !.status = "FAILED"] ELSE row
        /\ dispatcher' = "done"
     \/ /\ notice = "PUBLISHED"
        /\ dispatcher' = "recheck"
        /\ UNCHANGED row
  /\ UNCHANGED <<job, worker, operator, callback, notice, quiet, nights, sent, doubts>>

\* The second read: a retry may have claimed the row meanwhile
DispatchRecheck ==
  /\ dispatcher = "recheck"
  /\ dispatcher' = IF FirstAttempt THEN "handoff" ELSE "done"
  /\ UNCHANGED <<row, job, worker, operator, callback, notice, quiet, nights, sent, doubts>>

\* The queue's acknowledgement may be lost, with or without the job
DispatchHandoff ==
  /\ dispatcher = "handoff"
  /\ \/ job' = Enqueued(0) /\ dispatcher' = "done"
     \/ /\ "lostAck" \in Faults
        /\ job' \in {job, Enqueued(0)}
        /\ dispatcher' = "unconfirmed"
  /\ UNCHANGED <<row, worker, operator, callback, notice, quiet, nights, sent, doubts>>

\* The catch block: the attempt keeps its identity
DispatchUnconfirmed ==
  /\ dispatcher = "unconfirmed"
  /\ row' = IF FirstAttempt THEN [row EXCEPT !.status = "RETRY_PENDING"] ELSE row
  /\ dispatcher' = "done"
  /\ UNCHANGED <<job, worker, operator, callback, notice, quiet, nights, sent, doubts>>

Dispatch == DispatchPolicy \/ DispatchRecheck \/ DispatchHandoff \/ DispatchUnconfirmed

-----------------------------------------------------------------------------
(* Workers: process, processNotificationJob, markDelivery *)

\* runTenantScopedJob: the job of a suspended school completes without effect
TakeJob(w, a) ==
  /\ worker[w] = Idle
  /\ job[a].st = "waiting"
  /\ \/ /\ worker' = [worker EXCEPT ![w] = [pc |-> "check", attempt |-> a,
                        result |-> "SENT", msg |-> 0, owns |-> TRUE]]
        /\ job' = [job EXCEPT ![a].st = "active"]
     \/ /\ "suspend" \in Faults
        /\ job' = [job EXCEPT ![a].st = "done"]
        /\ UNCHANGED worker
  /\ UNCHANGED <<row, dispatcher, operator, callback, notice, quiet, nights, sent, doubts>>

\* The run of w ends; without the lock it no longer decides over the job
Ends(w, st) ==
  /\ worker' = [worker EXCEPT ![w] = Idle]
  /\ job' = IF worker[w].owns THEN [job EXCEPT ![worker[w].attempt].st = st] ELSE job

CheckCurrent(w) ==
  /\ worker[w].pc = "check"
  /\ IF OpenFor(worker[w].attempt)
     THEN worker' = [worker EXCEPT ![w].pc = "policy"] /\ UNCHANGED job
     ELSE Ends(w, "done")
  /\ UNCHANGED <<row, dispatcher, operator, callback, notice, quiet, nights, sent, doubts>>

Decide(w, result, msg) ==
  worker' = [worker EXCEPT ![w].pc = "mark", ![w].result = result, ![w].msg = msg]

\* Entitlement and evaluateDelivery
EvaluatePolicy(w) ==
  /\ worker[w].pc = "policy"
  /\ \/ PolicySkips /\ Decide(w, "SKIPPED", 0)
     \/ notice = "PUBLISHED" /\ quiet /\ Decide(w, "RETRY_PENDING", 0)
     \/ notice = "PUBLISHED" /\ ~quiet /\ worker' = [worker EXCEPT ![w].pc = "send"]
  /\ UNCHANGED <<row, job, dispatcher, operator, callback, notice, quiet, nights, sent, doubts>>

\* deliverWithProvider.  A timeout after the provider accepted looks like a failure.
Send(w) ==
  /\ worker[w].pc = "send"
  /\ \/ /\ Len(sent) < MaxMessages
        /\ sent' = Append(sent, worker[w].attempt)
        /\ \/ Decide(w, "SENT", Len(sent) + 1) /\ UNCHANGED doubts
           \/ "lostReply" \in Faults /\ Decide(w, "FAILED", 0) /\ doubts' = doubts + 1
     \/ /\ "reject" \in Faults
        /\ Decide(w, "FAILED", 0)
        /\ UNCHANGED <<sent, doubts>>
     \/ /\ "withdraw" \in Faults  \* the provider was disabled, no device token is left
        /\ Decide(w, "SKIPPED", 0)
        /\ UNCHANGED <<sent, doubts>>
  /\ UNCHANGED <<row, job, dispatcher, operator, callback, notice, quiet, nights>>

\* The job after a run: delayed to the end of quiet hours, tried again with
\* backoff, out of tries, or done
Retried(a) == [job EXCEPT ![a].st = "waiting", ![a].tries = @ - 1]
\* Seeded fault: the delayed job is completed
JobAfterUndelayed(w) ==
  LET a == worker[w].attempt
  IN  CASE worker[w].result = "FAILED" /\ job[a].tries > 1 -> Retried(a)
        [] worker[w].result = "FAILED" /\ job[a].tries <= 1 -> [job EXCEPT ![a].st = "dead"]
        [] OTHER -> [job EXCEPT ![a].st = "done"]
\* Seeded fault: the number of tries is not limited
JobAfterForever(w) ==
  LET a == worker[w].attempt
  IN  CASE worker[w].result = "RETRY_PENDING" -> [job EXCEPT ![a].st = "delayed"]
        [] worker[w].result = "FAILED" -> Retried(a)
        [] OTHER -> [job EXCEPT ![a].st = "done"]
JobAfter(w) ==
  LET a == worker[w].attempt
  IN  CASE worker[w].result = "RETRY_PENDING" -> [job EXCEPT ![a].st = "delayed"]
        [] worker[w].result = "FAILED" /\ job[a].tries > 1 -> Retried(a)
        [] worker[w].result = "FAILED" /\ job[a].tries <= 1 -> [job EXCEPT ![a].st = "dead"]
        [] OTHER -> [job EXCEPT ![a].st = "done"]

MarkDelivery(w) ==
  /\ worker[w].pc = "mark"
  /\ row' = IF OpenFor(worker[w].attempt)
            THEN [row EXCEPT !.status = worker[w].result,
                             !.msg = IF worker[w].msg = 0 THEN @ ELSE worker[w].msg]
            ELSE row
  /\ worker' = [worker EXCEPT ![w] = Idle]
  /\ job' = IF worker[w].owns THEN JobAfter(w) ELSE job
  /\ UNCHANGED <<dispatcher, operator, callback, notice, quiet, nights, sent, doubts>>

\* BullMQ: a worker that died or stalled loses the lock and the job runs
\* again, once; a stalled worker goes on without the lock
Stall(w) ==
  /\ "stall" \in Faults
  /\ worker[w] # Idle
  /\ worker[w].owns
  /\ LET a == worker[w].attempt
     IN  job' = [job EXCEPT ![a].st = IF job[a].stalled THEN "dead" ELSE "waiting",
                            ![a].stalled = TRUE]
  /\ worker' \in {[worker EXCEPT ![w] = Idle], [worker EXCEPT ![w].owns = FALSE]}
  /\ doubts' = doubts + 1
  /\ UNCHANGED <<row, dispatcher, operator, callback, notice, quiet, nights, sent>>

WorkerStep(w) ==
  \/ \E a \in Attempts : TakeJob(w, a)
  \/ CheckCurrent(w)
  \/ EvaluatePolicy(w)
  \/ Send(w)
  \/ MarkDelivery(w)

-----------------------------------------------------------------------------
(* DeliveryRetryService.  The retry of a RETRY_PENDING row is a replay that *)
(* changes nothing.                                                         *)

RetryReads(o) ==
  /\ operator[o] = Idle
  /\ row.status \in {"FAILED", "QUEUED"}
  /\ operator' = [operator EXCEPT ![o] = [pc |-> "claim", attempt |-> row.attempt]]
  /\ UNCHANGED <<row, job, dispatcher, worker, callback, notice, quiet, nights, sent, doubts>>

\* A worker past its check is not stopped by the claim
Underway(a) == \E w \in Workers : worker[w] # Idle /\ worker[w].attempt = a
                                  /\ worker[w].pc \in {"policy", "send", "mark"}

RetryClaims(o) ==
  /\ operator[o].pc = "claim"
  /\ row.attempt < MaxAttempt
  /\ IF Claimable(operator[o].attempt)
     THEN /\ row' = [row EXCEPT !.status = "RETRY_PENDING", !.attempt = @ + 1]
          /\ operator' = [operator EXCEPT ![o] = [pc |-> "handoff", attempt |-> row.attempt + 1]]
          /\ doubts' = IF Underway(row.attempt) THEN doubts + 1 ELSE doubts
     ELSE /\ operator' = [operator EXCEPT ![o] = Idle]
          /\ UNCHANGED <<row, doubts>>
  /\ UNCHANGED <<job, dispatcher, worker, callback, notice, quiet, nights, sent>>

\* Handed over; unconfirmed, with or without the job; or blocked before the
\* handoff because the provider is not ready or no destination is known
RetryHandoff(o) ==
  /\ operator[o].pc = "handoff"
  /\ operator' = [operator EXCEPT ![o] = Idle]
  /\ LET a == operator[o].attempt
     IN  \/ job' = Enqueued(a) /\ UNCHANGED row
         \/ "lostAck" \in Faults /\ UNCHANGED <<row, job>>
         \/ /\ "reject" \in Faults
            /\ row' = IF row.status = "RETRY_PENDING" /\ row.attempt = a
                      THEN [row EXCEPT !.status = "FAILED"] ELSE row
            /\ UNCHANGED job
  /\ UNCHANGED <<dispatcher, worker, callback, notice, quiet, nights, sent, doubts>>

-----------------------------------------------------------------------------
(* recordProviderDeliveryStatus *)

\* resolveDeliveryStatusTransition
TransitionApplies(current, incoming) ==
  /\ current # incoming
  /\ current \notin {"DELIVERED", "CANCELLED", "SKIPPED"}
  /\ ~(current = "FAILED" /\ incoming = "SENT")

\* The provider reports on the message m it accepted, with its id or only with
\* the delivery's id; a foreign message id is refused
CallbackReads(k, m, incoming, withMessageId) ==
  /\ callback[k] = Idle
  /\ withMessageId => row.msg \in {0, m}
  /\ TransitionApplies(row.status, incoming)
  /\ callback' = [callback EXCEPT ![k] =
                    [pc |-> "write", incoming |-> incoming,
                     msg |-> IF withMessageId THEN m ELSE row.msg]]
  /\ UNCHANGED <<row, job, dispatcher, worker, operator, notice, quiet, nights, sent, doubts>>

\* The update names only the id of the row; a null message id is left as it is
CallbackWrites(k) ==
  /\ callback[k].pc = "write"
  /\ row' = [row EXCEPT !.status = callback[k].incoming,
                        !.msg = IF callback[k].msg = 0 THEN @ ELSE callback[k].msg]
  /\ callback' = [callback EXCEPT ![k] = Idle]
  /\ doubts' = IF callback[k].incoming = "FAILED" THEN doubts + 1 ELSE doubts
  /\ UNCHANGED <<job, dispatcher, worker, operator, notice, quiet, nights, sent>>

-----------------------------------------------------------------------------
(* The notice and the clock *)

\* cancelNotice that read the notice before it was published
CancelNotice ==
  /\ notice # "CANCELLED"
  /\ notice' = "CANCELLED"
  /\ row' = IF row.status \in {"QUEUED", "RETRY_PENDING"}
            THEN [row EXCEPT !.status = "CANCELLED"] ELSE row
  /\ UNCHANGED <<job, dispatcher, worker, operator, callback, quiet, nights, sent, doubts>>

\* processExpiredNotices
ExpireNotice ==
  /\ notice = "PUBLISHED"
  /\ notice' = "EXPIRED"
  /\ UNCHANGED <<row, job, dispatcher, worker, operator, callback, quiet, nights, sent, doubts>>

QuietBegins ==
  /\ ~quiet /\ nights < MaxNights
  /\ quiet' = TRUE
  /\ nights' = nights + 1
  /\ UNCHANGED <<row, job, dispatcher, worker, operator, callback, notice, sent, doubts>>

QuietEnds ==
  /\ quiet
  /\ quiet' = FALSE
  /\ UNCHANGED <<row, job, dispatcher, worker, operator, callback, notice, nights, sent, doubts>>

\* resumeAt, the end of the quiet hours, has come
JobResumes(a) ==
  /\ job[a].st = "delayed"
  /\ ~quiet
  /\ job' = [job EXCEPT ![a].st = "waiting"]
  /\ UNCHANGED <<row, dispatcher, worker, operator, callback, notice, quiet, nights, sent, doubts>>

-----------------------------------------------------------------------------
Init ==
  /\ row = [status |-> "QUEUED", attempt |-> 0, msg |-> 0]
  /\ job = [a \in Attempts |-> [st |-> "none", tries |-> Tries, stalled |-> FALSE]]
  /\ dispatcher = "policy"
  /\ worker = [w \in Workers |-> Idle]
  /\ operator = [o \in Operators |-> Idle]
  /\ callback = [k \in Callbacks |-> Idle]
  /\ notice = "PUBLISHED"
  /\ quiet = FALSE
  /\ nights = 0
  /\ sent = <<>>
  /\ doubts = 0

Next ==
  \/ Dispatch
  \/ \E w \in Workers : WorkerStep(w) \/ Stall(w)
  \/ \E o \in Operators : RetryReads(o) \/ RetryClaims(o) \/ RetryHandoff(o)
  \/ \E k \in Callbacks :
       \/ \E m \in DOMAIN sent, s \in {"SENT", "DELIVERED", "FAILED"}, b \in BOOLEAN :
            CallbackReads(k, m, s, b)
       \/ CallbackWrites(k)
  \/ CancelNotice
  \/ ExpireNotice
  \/ QuietBegins
  \/ QuietEnds
  \/ \E a \in Attempts : JobResumes(a)

Spec == Init /\ [][Next]_vars

\* The API process finishes what it began, workers run their jobs and quiet
\* hours end.  Nothing is assumed of operators, callbacks or faults.
FairSpec == Spec /\ WF_vars(Dispatch) /\ WF_vars(QuietEnds)
                 /\ \A a \in Attempts : WF_vars(JobResumes(a))
                 /\ \A w \in Workers : WF_vars(WorkerStep(w))

-----------------------------------------------------------------------------
(* Properties *)

\* Nobody is notified twice without a reason: beyond the first message, every
\* message the provider accepts is owed to a lost reply, a stalled worker, a
\* failure the provider reported, or an operator who retried while a worker was
\* past its check.  Lost queue acknowledgements, the queue's own retries, quiet
\* hours and operators who retry the same failure together add none.
NoUnexplainedDuplicate == Len(sent) <= 1 + doubts

\* SENT is never written for an attempt the provider did not accept: a late
\* worker of an earlier attempt cannot answer for the current one.  (Without
\* callbacks, which name the row and not the attempt.)
SentWasAccepted ==
  row.status = "SENT" => \E m \in DOMAIN sent : sent[m] = row.attempt

\* A delivery that was cancelled or skipped is never reopened by a worker, a
\* dispatch or a retry that had read it before.
WithdrawnStaysWithdrawn ==
  [][row.status \in {"CANCELLED", "SKIPPED"} => row'.status = row.status]_vars

\* resolveDeliveryStatusTransition: 'delivered_is_terminal'.
DeliveredIsTerminal ==
  [][row.status = "DELIVERED" => row'.status = "DELIVERED"]_vars

\* An attempt whose job is in the queue does not stay pending for ever: unless
\* it is superseded, it is sent, skipped, cancelled or reported as failed,
\* whatever acknowledgements and replies are lost and however long nights are.
AttemptsResolve ==
  \A a \in Attempts :
    (row.attempt = a /\ job[a].st \in {"waiting", "delayed", "active"})
      ~> (row.attempt # a \/ row.status \notin {"QUEUED", "RETRY_PENDING"})
=============================================================================
