---------------------------- MODULE NoticeLifecycle ----------------------------
(***************************************************************************)
(* School notices from draft to archive (communications.service.ts), the   *)
(* approval of high-impact ones (notice-approval.service.ts,               *)
(* approval-workflow.service.ts), the Principal app that submits them      *)
(* (mobile-principal.service.ts) and the cron that publishes what is due.  *)
(*                                                                         *)
(* Every handler reads a row and writes later, by id, with no transaction  *)
(* around both: a process keeps what it has read, and the others move in   *)
(* between.  Only a publication of a prepared notice claims the row it has *)
(* read.  A notice is offered to the notification event service, which     *)
(* takes it when the notice is PUBLISHED at that moment, and its           *)
(* deliveries are then recorded.                                           *)
(***************************************************************************)
EXTENDS Naturals, FiniteSets

CONSTANTS
  Notices,
  Waiting,      \* bound: notices that are due and that no request is about
  Requests,     \* handlers of HTTP requests that run at a time
  Crons,        \* runs of the cron at a time
  None,
  MaxOps,       \* bound: requests that are made of a notice after its creation
  MaxFaults     \* bound: processes that die and recordings of deliveries that fail

ASSUME ConstantsAssumption ==
  /\ Waiting \subseteq Notices /\ Requests \cap Crons = {}
  /\ MaxOps \in Nat /\ MaxFaults \in Nat

VARIABLES
  notice,       \* notice[n]: a row of Notice
  event,        \* event[n]: the status of its NotificationEvent
  rows,         \* rows[n]: its rows of NotificationDelivery
  approval,     \* approval[n]: the ApprovalRequest that targets it
  proc,         \* proc[p]: where a handler is, and what it has read
  past,         \* past[n]: what has happened to the notice
  spent         \* how much of the bounds is used

vars == <<notice, event, rows, approval, proc, past, spent>>

-----------------------------------------------------------------------------
Statuses == {"DRAFT", "APPROVAL_PENDING", "APPROVED", "SCHEDULED", "PUBLISHED",
             "CANCELLED", "EXPIRED", "ARCHIVED"}
Priorities == {"NORMAL", "URGENT"}   \* EMERGENCY is guarded as URGENT is
Times == {"none", "future", "past"}

NoNotice == [st |-> "none", prio |-> "NORMAL", published |-> FALSE, sched |-> "none",
             expiry |-> "none", from |-> "none", mobile |-> FALSE]
NoApproval == [st |-> "none", step |-> "PENDING", sched |-> "none", mobile |-> FALSE]
Idle == [pc |-> "idle", n |-> None, via |-> "web", arg |-> None, due |-> {}]
NoPast == [claims |-> 0, reopened |-> 0, lost |-> FALSE, raced |-> FALSE,
           misfiled |-> FALSE, raised |-> FALSE, approved |-> FALSE]

Procs == Requests \cup Crons

Init ==
  /\ notice = [n \in Notices |-> IF n \in Waiting
                             THEN [NoNotice EXCEPT !.st = "SCHEDULED", !.sched = "past"]
                             ELSE NoNotice]
  /\ event = [n \in Notices |-> "none"]
  /\ rows = [n \in Notices |-> "none"]
  /\ approval = [n \in Notices |-> NoApproval]
  /\ proc = [p \in Procs |-> Idle]
  /\ past = [n \in Notices |-> NoPast]
  /\ spent = [ops |-> 0, faults |-> 0]

-----------------------------------------------------------------------------
(***************************************************************************)
(* How processes move.  To announce a notice is to offer it and to record  *)
(* its deliveries.                                                         *)
(***************************************************************************)
At(p, pc) == proc[p].pc = pc
Announcing(p, n) == proc[p].n = n /\ proc[p].pc \in {"accept", "record"}
Owed(n) == \E p \in Procs : Announcing(p, n)
Go(p, pc) == proc' = [proc EXCEPT ![p].pc = pc]
End(p) == proc' = [proc EXCEPT ![p] = Idle]

\* What follows a publication that returned: the next due notice, or the end.
Done(p) ==
  IF proc[p].via = "cron"
  THEN proc' = [proc EXCEPT ![p] = [Idle EXCEPT !.pc = "loop", !.via = "cron",
                                                !.due = proc[p].due \ {proc[p].n}]]
  ELSE End(p)

\* An error ends a request and the cron's work for the school; that of a final
\* action is caught and written to the request.
Throw(p) == IF proc[p].via = "approval" THEN Go(p, "APPLY_FAILED") ELSE End(p)

\* A request reads the notice and goes on if the handler's conditions hold.
\* It keeps arg: what it was asked for, or what of the row it will need.
Read(p, n, pc, via, arg) ==
  /\ p \in Requests /\ At(p, "idle") /\ spent.ops < MaxOps /\ notice[n].st # "none"
  /\ proc' = [proc EXCEPT ![p] = [pc |-> pc, n |-> n, via |-> via, arg |-> arg, due |-> {}]]
  /\ spent' = [spent EXCEPT !.ops = @ + 1]

\* A notice whose time has passed in the archive is restored as a draft.
RestoredStatus(v) ==
  IF v.from = "none" \/ (v.from = "SCHEDULED" /\ v.sched # "future") THEN "DRAFT" ELSE v.from

\* The archive is about to keep, or to give back, a status the notice has left.
Misfiles(p) ==
  LET v == notice[proc[p].n]
  IN  \/ At(p, "archive") /\ v.st # proc[p].arg
      \/ At(p, "restore") /\ (v.st # "ARCHIVED" \/ RestoredStatus(v) # proc[p].arg)

\* What a write of v is for the others: it takes a publication back, it comes
\* into an announcement, or it raises the priority of a notice at work.
Reopens(n, v) == notice[n].published /\ ~v.published
Races(p, n) == \E q \in Procs \ {p} : Announcing(q, n)
Raises(p, n, v) ==
  /\ notice[n].prio = "NORMAL" /\ v.prio # "NORMAL"
  /\ notice[n].st # "DRAFT" \/ \E q \in Procs \ {p} : proc[q].n = n

\* The row becomes v by a write that process p makes by id alone.
Put(p, v) ==
  LET n == proc[p].n
  IN  /\ notice' = [notice EXCEPT ![n] = v]
      /\ past' = [past EXCEPT ![n].reopened = IF Reopens(n, v) THEN @ + 1 ELSE @,
                              ![n].raced = @ \/ Races(p, n),
                              ![n].misfiled = @ \/ Misfiles(p),
                              ![n].raised = @ \/ Raises(p, n, v)]

-----------------------------------------------------------------------------
(***************************************************************************)
(* Creation.  Web notices that are published at once are announced by the  *)
(* request that creates them.                                              *)
(***************************************************************************)
CreateNotice(p, n) ==
  /\ p \in Requests /\ At(p, "idle") /\ notice[n].st = "none"
  /\ \/ /\ notice' = [notice EXCEPT ![n].st = "PUBLISHED", ![n].published = TRUE]
        /\ past' = [past EXCEPT ![n].claims = 1]
        /\ proc' = [proc EXCEPT ![p] = [Idle EXCEPT !.pc = "accept", !.n = n]]
     \/ /\ notice' = [notice EXCEPT ![n].st = "SCHEDULED", ![n].sched = "future"]
        /\ UNCHANGED <<past, proc>>
  /\ UNCHANGED <<event, rows, approval, spent>>

CreateNoticeDraft(p, n) ==
  /\ p \in Requests /\ At(p, "idle") /\ notice[n].st = "none"
  /\ \E prio \in Priorities, sched \in {"none", "future"} :
       notice' = [notice EXCEPT ![n].st = "DRAFT", ![n].prio = prio, ![n].sched = sched]
  /\ UNCHANGED <<event, rows, approval, proc, past, spent>>

\* submitEmergencyNotice finds the draft of an earlier call by its key.  The
\* policy decides whether it needs an approval.
SubmitEmergencyNotice(p, n) ==
  /\ p \in Requests /\ At(p, "idle")
  /\ \E sched \in {"none", "future"}, required \in BOOLEAN :
       /\ \/ /\ notice[n].st = "none"
             /\ notice' = [notice EXCEPT ![n].st = "DRAFT", ![n].prio = "URGENT", ![n].mobile = TRUE,
                                         ![n].sched = IF required THEN "none" ELSE sched]
             /\ UNCHANGED spent
          \/ /\ notice[n].mobile /\ spent.ops < MaxOps
             /\ spent' = [spent EXCEPT !.ops = @ + 1]
             /\ UNCHANGED notice
       /\ proc' = [proc EXCEPT ![p] =
            [Idle EXCEPT !.pc = IF required THEN "request" ELSE "send", !.n = n,
                         !.via = "mobile", !.arg = sched]]
       /\ past' = [past EXCEPT ![n].approved = @ \/ ~required]
  /\ UNCHANGED <<event, rows, approval>>

-----------------------------------------------------------------------------
(***************************************************************************)
(* Handlers that write what they have decided from an earlier read.        *)
(***************************************************************************)
\* Bound: an edit sets the priority or an expiry, and leaves the time alone.
Edits == Priorities \cup {"expiry"}
MayEdit(v, e) ==
  /\ v.st = "DRAFT"
  /\ v.sched = "future" /\ v.expiry = "past" => e = "expiry"

UpdateNoticeDraft(p, n) ==
  \E e \in Edits :
    /\ MayEdit(notice[n], e) /\ Read(p, n, "edit", "web", e)
    /\ UNCHANGED <<notice, event, rows, approval, past>>

Edited(v, e) ==
  IF e = "expiry" THEN [v EXCEPT !.expiry = "future"] ELSE [v EXCEPT !.prio = e]

MaySchedule(v) ==
  /\ v.prio # "NORMAL" => v.st = "APPROVED"
  /\ v.st \in {"DRAFT", "APPROVED", "SCHEDULED"}
  /\ v.expiry # "past"
ScheduleNotice(p, n) ==
  /\ MaySchedule(notice[n]) /\ Read(p, n, "schedule", "web", None)
  /\ UNCHANGED <<notice, event, rows, approval, past>>

Scheduled(v) == [v EXCEPT !.st = "SCHEDULED", !.sched = "future", !.published = FALSE]

MayCancel(v) == v.st \in {"DRAFT", "APPROVAL_PENDING", "APPROVED", "SCHEDULED"}
CancelNotice(p, n) ==
  /\ MayCancel(notice[n]) /\ Read(p, n, "cancel", "web", None)
  /\ UNCHANGED <<notice, event, rows, approval, past>>

Cancelled(v) == [v EXCEPT !.st = "CANCELLED", !.sched = "none"]
\* ... and, in the same transaction, its deliveries that are still waiting.
WithdrawnNothing(r) == r
Withdrawn(r) == IF r = "queued" THEN "cancelled" ELSE r

ArchiveNotice(p, n) ==
  /\ notice[n].st # "ARCHIVED" /\ Read(p, n, "archive", "web", notice[n].st)
  /\ UNCHANGED <<notice, event, rows, approval, past>>

ArchivedFromRow(v, st) == [v EXCEPT !.st = "ARCHIVED", !.from = v.st]
Archived(v, st) == [v EXCEPT !.st = "ARCHIVED", !.from = st]

RestoreNotice(p, n) ==
  /\ notice[n].st = "ARCHIVED" /\ Read(p, n, "restore", "web", RestoredStatus(notice[n]))
  /\ UNCHANGED <<notice, event, rows, approval, past>>

Restored(v, st) == [v EXCEPT !.from = "none", !.st = st]

\* The write of each of them.
Write(p) ==
  LET v == notice[proc[p].n]
      arg == proc[p].arg
  IN  /\ \/ At(p, "edit") /\ Put(p, Edited(v, arg))
         \/ At(p, "schedule") /\ Put(p, Scheduled(v))
         \/ At(p, "cancel") /\ Put(p, Cancelled(v))
         \/ At(p, "archive") /\ Put(p, Archived(v, arg))
         \/ At(p, "restore") /\ Put(p, Restored(v, arg))
      /\ rows' = IF At(p, "cancel") THEN [rows EXCEPT ![proc[p].n] = Withdrawn(@)] ELSE rows
      /\ End(p)
      /\ UNCHANGED <<event, approval, spent>>

-----------------------------------------------------------------------------
(***************************************************************************)
(* publishPreparedNotice: the row is read, its recipients are previewed,   *)
(* and the conditional write claims the notice as it was read.  The loser  *)
(* of a race is answered as a replay.  Whom a preview finds is a choice:   *)
(* "nobody" is eligible, or the preview fails.                             *)
(***************************************************************************)
Previews == {"recipients", "nobody", "failure"}
MayPublishUnapproved(v, preview) ==
  /\ v.st \in {"DRAFT", "APPROVED", "SCHEDULED"}
  /\ v.expiry # "past"
  /\ preview = "recipients"
MayPublish(v, preview) ==
  /\ v.prio # "NORMAL" => v.st = "APPROVED"
  /\ v.st \in {"DRAFT", "APPROVED", "SCHEDULED"}
  /\ v.expiry # "past"
  /\ preview = "recipients"

PublishPreparedNotice(p, n) ==
  /\ \E preview \in Previews : MayPublish(notice[n], preview)
  /\ Read(p, n, "claim", "web", notice[n].st)
  /\ UNCHANGED <<notice, event, rows, approval, past>>

MayClaimById(v, st) == TRUE
MayClaim(v, st) == v.st = st /\ ~v.published

\* Announcing first is to be refused.
ClaimAfterAnnouncing(p) ==
  LET n == proc[p].n
  IN  /\ At(p, "claim") /\ Done(p)
      /\ IF MayClaim(notice[n], proc[p].arg)
         THEN /\ notice' = [notice EXCEPT ![n].st = "PUBLISHED", ![n].published = TRUE]
              /\ past' = [past EXCEPT ![n].claims = @ + 1]
         ELSE UNCHANGED <<notice, past>>
      /\ UNCHANGED <<event, rows, approval, spent>>

Claim(p) ==
  LET n == proc[p].n
  IN  /\ At(p, "claim")
      /\ \/ /\ MayClaim(notice[n], proc[p].arg)
            /\ notice' = [notice EXCEPT ![n].st = "PUBLISHED", ![n].published = TRUE,
                                        ![n].sched = "none"]
            /\ past' = [past EXCEPT ![n].claims = @ + 1]
            /\ proc' = [proc EXCEPT ![p].pc = "accept", ![p].arg = None]
         \/ /\ ~MayClaim(notice[n], proc[p].arg)
            /\ Done(p)
            /\ UNCHANGED <<notice, past>>
      /\ UNCHANGED <<event, rows, approval, spent>>

(***************************************************************************)
(* publishNotice: the way of high-impact notices from the app and from an  *)
(* approval.  It announces the notice first and writes PUBLISHED last.     *)
(***************************************************************************)
PublishNotice(p) ==
  LET n == proc[p].n
      v == notice[n]
      allowed == v.prio # "NORMAL" /\ v.st \in {"DRAFT", "APPROVED", "SCHEDULED", "PUBLISHED"}
      sched == IF proc[p].arg # "none" THEN proc[p].arg ELSE v.sched
  IN  /\ At(p, "send")
      /\ \/ ~allowed /\ Throw(p)
         \/ allowed /\ proc' = [proc EXCEPT ![p].arg = IF v.published THEN "published" ELSE "unpublished",
                                 ![p].pc = IF sched = "future" THEN "defer" ELSE "accept"]
      /\ UNCHANGED <<notice, event, rows, approval, past, spent>>

Finish(p) == IF proc[p].via = "approval" THEN Go(p, "APPLIED") ELSE End(p)

Defer(p) ==
  /\ At(p, "defer") /\ Put(p, Scheduled(notice[proc[p].n])) /\ Finish(p)
  /\ UNCHANGED <<event, rows, approval, spent>>

WritePublished(p) ==
  LET v == notice[proc[p].n]
  IN  /\ At(p, "write") /\ Finish(p)
      /\ IF proc[p].arg = "published"
         THEN UNCHANGED <<notice, past>>
         ELSE Put(p, [v EXCEPT !.st = "PUBLISHED", !.published = TRUE, !.sched = "none"])
      /\ UNCHANGED <<event, rows, approval, spent>>

-----------------------------------------------------------------------------
(***************************************************************************)
(* emitNoticePublished and handleNoticePublished.  The event library may   *)
(* hand the listener's error to the publisher or swallow it, which the     *)
(* publisher takes for an announcement to nobody.                          *)
(***************************************************************************)
Announced(p) == IF proc[p].via \in {"mobile", "approval"} THEN Go(p, "write") ELSE Done(p)
ListenerFails(p) == Announced(p) \/ Throw(p)

\* An event that exists is found again by its idempotency key.
Accept(p) ==
  LET n == proc[p].n
  IN  /\ At(p, "accept")
      /\ \/ /\ notice[n].st = "PUBLISHED"
            /\ event' = [event EXCEPT ![n] = IF @ = "none" THEN "ACCEPTED" ELSE @]
            /\ Go(p, "record")
         \/ /\ notice[n].st # "PUBLISHED"
            /\ ListenerFails(p)
            /\ UNCHANGED event
      /\ UNCHANGED <<notice, rows, approval, past, spent>>

\* Deliveries that exist are counted and not repeated.
Recorded(r) == IF r = "none" THEN "queued" ELSE r

\* A failure comes before the rows are committed or after.  The mark of the event,
\* which follows and which nobody waits for, belongs to the step.
RecordDeliveryRecords(p) ==
  LET n == proc[p].n
      recorded == [rows EXCEPT ![n] = Recorded(@)]
  IN  /\ At(p, "record")
      /\ \/ /\ rows' = recorded
            /\ event' = [event EXCEPT ![n] = "DISPATCHED"]
            /\ Announced(p)
            /\ UNCHANGED <<past, spent>>
         \/ /\ spent.faults < MaxFaults
            /\ spent' = [spent EXCEPT !.faults = @ + 1]
            /\ rows' \in {rows, recorded}
            /\ event' = [event EXCEPT ![n] = IF @ = "DISPATCHED" THEN @ ELSE "FAILED"]
            /\ past' = [past EXCEPT ![n].lost = TRUE]
            /\ ListenerFails(p)
      /\ UNCHANGED <<notice, approval>>

-----------------------------------------------------------------------------
(***************************************************************************)
(* Approval.  Bounds: one request a notice, of one step.  Its key finds it *)
(* again when the same version is submitted twice.                         *)
(***************************************************************************)
RequestApproval(p, n) ==
  \E sched \in {"none", "future"} :
    /\ notice[n].prio # "NORMAL" /\ notice[n].st = "DRAFT"
    /\ approval[n].st \in {"none", "PENDING"} /\ ~approval[n].mobile
    /\ Read(p, n, "request", "web", sched)
    /\ UNCHANGED <<notice, event, rows, approval, past>>

CreateRequest(p) ==
  LET n == proc[p].n
      mobile == proc[p].via = "mobile"
  IN  /\ At(p, "request")
      /\ \/ /\ approval[n].st = "none"
            /\ approval' = [approval EXCEPT ![n] = [NoApproval EXCEPT
                              !.st = "PENDING", !.sched = proc[p].arg, !.mobile = mobile]]
         \/ /\ approval[n].st # "none" /\ approval[n].mobile = mobile
            /\ UNCHANGED approval
      /\ Go(p, "pending")
      /\ UNCHANGED <<notice, event, rows, past, spent>>

\* markNoticeApprovalPending and markNoticeApproved: a read, then a write.
ReadForMark(p) ==
  LET st == notice[proc[p].n].st
  IN  /\ \/ At(p, "pending") /\ st # "PUBLISHED" /\ Go(p, "markPending")
         \/ At(p, "pending") /\ st = "PUBLISHED" /\ Throw(p)
         \/ At(p, "approve") /\ st \in {"APPROVAL_PENDING", "APPROVED"} /\ Go(p, "markApproved")
         \/ At(p, "approve") /\ st \notin {"APPROVAL_PENDING", "APPROVED"} /\ Throw(p)
      /\ UNCHANGED <<notice, event, rows, approval, past, spent>>

MarkNoticeApprovalPending(p) ==
  /\ At(p, "markPending")
  /\ Put(p, [notice[proc[p].n] EXCEPT !.st = "APPROVAL_PENDING"])
  /\ End(p)
  /\ UNCHANGED <<event, rows, approval, spent>>

MarkNoticeApproved(p) ==
  /\ At(p, "markApproved")
  /\ Put(p, [notice[proc[p].n] EXCEPT !.st = "APPROVED"])
  /\ Go(p, "send")
  /\ UNCHANGED <<event, rows, approval, spent>>

\* decide looks at the request before its transaction, which looks at nothing.
Reviewable(a) == a.st \in {"PENDING", "APPROVED"} /\ a.step = "PENDING"
Decide(p, n) ==
  \E d \in {"APPROVED", "REJECTED"} :
    /\ Reviewable(approval[n]) /\ Read(p, n, "decide", "approval", d)
    /\ UNCHANGED <<notice, event, rows, approval, past>>

CommitDecision(p) ==
  LET n == proc[p].n
      d == proc[p].arg
  IN  /\ At(p, "decide")
      /\ approval' = [approval EXCEPT ![n].step = d, ![n].st = d]
      /\ past' = [past EXCEPT ![n].approved = @ \/ d = "APPROVED"]
      /\ IF d = "APPROVED" THEN Go(p, "apply") ELSE End(p)
      /\ UNCHANGED <<notice, event, rows, spent>>

\* applyFinalAction follows the decision and is an endpoint of its own.
RetryFinalAction(p, n) ==
  /\ approval[n].st = "APPROVED" /\ Read(p, n, "apply", "approval", None)
  /\ UNCHANGED <<notice, event, rows, approval, past>>

ApplyFinalAction(p) ==
  LET a == approval[proc[p].n]
  IN  /\ At(p, "apply")
      /\ \/ a.st = "APPROVED" /\ proc' = [proc EXCEPT ![p].pc = "approve", ![p].arg = a.sched]
         \/ a.st # "APPROVED" /\ End(p)
      /\ UNCHANGED <<notice, event, rows, approval, past, spent>>

EndFinalAction(p) ==
  \E st \in {"APPLIED", "APPLY_FAILED"} :
    /\ At(p, st)
    /\ approval' = [approval EXCEPT ![proc[p].n].st = st]
    /\ End(p)
    /\ UNCHANGED <<notice, event, rows, past, spent>>

-----------------------------------------------------------------------------
(***************************************************************************)
(* The cron, once a minute: it looks for work, finds a user of the school  *)
(* to act for, publishes the notices that are due, in any order and        *)
(* without a handler around each, and then expires the others.             *)
(***************************************************************************)
Due(n) == notice[n].st = "SCHEDULED" /\ ~notice[n].published /\ notice[n].sched = "past"
Overdue(n) == notice[n].st = "PUBLISHED" /\ notice[n].expiry = "past"

ProcessOverdueNotices(p) ==
  /\ p \in Crons /\ At(p, "idle")
  /\ \E n \in Notices : Overdue(n)
  /\ proc' = [proc EXCEPT ![p] = [Idle EXCEPT !.pc = "actor", !.via = "cron"]]
  /\ UNCHANGED <<notice, event, rows, approval, past, spent>>

ProcessDueNoticeLifecycle(p) ==
  /\ p \in Crons /\ At(p, "idle")
  /\ \E n \in Notices : Due(n) \/ Overdue(n)
  /\ proc' = [proc EXCEPT ![p] = [Idle EXCEPT !.pc = "actor", !.via = "cron"]]
  /\ UNCHANGED <<notice, event, rows, approval, past, spent>>

\* A school without an active user, or suspended meanwhile, is skipped.
ResolveSystemActor(p) ==
  /\ At(p, "actor")
  /\ \/ proc' = [proc EXCEPT ![p] = [Idle EXCEPT !.pc = "loop", !.via = "cron",
                                                 !.due = {n \in Notices : Due(n)}]]
     \/ End(p)
  /\ UNCHANGED <<notice, event, rows, approval, past, spent>>

\* An error of one publication ends the work for the school.
ProcessScheduledNotices(p) ==
  /\ At(p, "loop")
  /\ \E n \in proc[p].due, preview \in Previews :
       LET v == notice[n]
       IN  proc' = [proc EXCEPT ![p] =
             IF v.st = "PUBLISHED" THEN [@ EXCEPT !.due = proc[p].due \ {n}]
             ELSE IF MayPublish(v, preview) THEN [@ EXCEPT !.pc = "claim", !.n = n, !.arg = v.st]
             ELSE Idle]
  /\ UNCHANGED <<notice, event, rows, approval, past, spent>>

ProcessExpiredNotices(p) ==
  /\ At(p, "loop") /\ proc[p].due = {}
  /\ notice' = [n \in Notices |->
                  IF Overdue(n) THEN [notice[n] EXCEPT !.st = "EXPIRED"] ELSE notice[n]]
  /\ past' = [n \in Notices |-> [past[n] EXCEPT !.raced = @ \/ (Overdue(n) /\ Owed(n))]]
  /\ End(p)
  /\ UNCHANGED <<event, rows, approval, spent>>

-----------------------------------------------------------------------------
\* A notice expires after its time of publication, and a request that names a
\* time for the publication is not older than its notice's.
Passed(t) == IF t = "future" THEN "past" ELSE t
ScheduledTimeComes(n) ==
  /\ "future" \in {notice[n].sched, approval[n].sched}
  /\ notice' = [notice EXCEPT ![n].sched = Passed(@)]
  /\ approval' = [approval EXCEPT ![n].sched = Passed(@)]
  /\ UNCHANGED <<event, rows, proc, past, spent>>

ExpiryComes(n) ==
  /\ notice[n].expiry = "future" /\ notice[n].sched # "future"
  /\ notice' = [notice EXCEPT ![n].expiry = "past"]
  /\ UNCHANGED <<event, rows, approval, proc, past, spent>>

\* A process dies.  A request that dies before it announces is one that never
\* takes its next step.
Crash(p) ==
  /\ ~At(p, "idle") /\ spent.faults < MaxFaults
  /\ p \in Crons \/ Announcing(p, proc[p].n)
  /\ proc' = [proc EXCEPT ![p] = Idle]
  /\ spent' = [spent EXCEPT !.faults = @ + 1]
  /\ past' = [n \in Notices |-> [past[n] EXCEPT !.lost = @ \/ Announcing(p, n)]]
  /\ UNCHANGED <<notice, event, rows, approval>>

-----------------------------------------------------------------------------
CronStep(p) ==
  \/ ProcessDueNoticeLifecycle(p) \/ ResolveSystemActor(p)
  \/ ProcessScheduledNotices(p) \/ ProcessExpiredNotices(p)

Step(p) ==
  \/ Write(p) \/ Claim(p) \/ PublishNotice(p) \/ Defer(p) \/ WritePublished(p)
  \/ Accept(p) \/ RecordDeliveryRecords(p)
  \/ CreateRequest(p) \/ ReadForMark(p) \/ MarkNoticeApprovalPending(p)
  \/ MarkNoticeApproved(p) \/ CommitDecision(p) \/ ApplyFinalAction(p) \/ EndFinalAction(p)
  \/ CronStep(p)

Call(p, n) ==
  \/ CreateNotice(p, n) \/ CreateNoticeDraft(p, n) \/ SubmitEmergencyNotice(p, n)
  \/ UpdateNoticeDraft(p, n) \/ ScheduleNotice(p, n) \/ CancelNotice(p, n)
  \/ ArchiveNotice(p, n) \/ RestoreNotice(p, n) \/ PublishPreparedNotice(p, n)
  \/ RequestApproval(p, n) \/ Decide(p, n) \/ RetryFinalAction(p, n)

Next ==
  \/ \E p \in Procs : Step(p) \/ Crash(p)
  \/ \E p \in Requests, n \in Notices \ Waiting : Call(p, n)
  \/ \E n \in Notices : ScheduledTimeComes(n) \/ ExpiryComes(n)

Spec == Init /\ [][Next]_vars

\* The scheduler calls the cron every minute, and what the cron has begun goes
\* on.  Nothing is assumed of requests.
FairSpec == Spec /\ \A p \in Crons : WF_vars(Step(p))

-----------------------------------------------------------------------------
\* Every variable has its type, and no notice is kept as archived from the
\* archive, from which nothing could restore it.  (archiveNotice, :828)
TypeOK ==
  /\ \A n \in Notices :
       /\ notice[n] \in [st : Statuses \cup {"none"}, prio : Priorities, published : BOOLEAN,
                          sched : Times, expiry : Times, mobile : BOOLEAN,
                          from : (Statuses \ {"ARCHIVED"}) \cup {"none"}]
       /\ event[n] \in {"none", "ACCEPTED", "DISPATCHED", "FAILED"}
       /\ rows[n] \in {"none", "queued", "cancelled"}
       /\ approval[n].st \in {"none", "PENDING", "APPROVED", "REJECTED", "APPLIED", "APPLY_FAILED"}
  /\ \A p \in Procs : proc[p].n \in Notices \cup {None} /\ proc[p].due \subseteq Notices

\* A notice is claimed for publication once, unless a schedule that was decided
\* before takes the publication back: however requests and the cron race, no
\* claim is repeated.  (publishPreparedNotice, communications.service.ts:686-715)
PublicationsAreClaimed ==
  \A n \in Notices : past[n].claims <= 1 + past[n].reopened

\* A notice that is published by a claim has deliveries once its announcement
\* has ended, unless the intake failed, the process died or another write
\* landed in between: the event service does not refuse it.
\* (the comment at communications.service.ts:712-715)
ClaimedIsAnnounced ==
  \A n \in Notices :
    notice[n].st = "PUBLISHED" /\ past[n].claims > past[n].reopened /\ ~Owed(n) =>
      rows[n] # "none" \/ past[n].lost \/ past[n].raced

\* A cancelled notice has no delivery that waits to be sent, unless it was
\* cancelled while it was being announced, or the archive gave back a
\* cancellation that a schedule had undone.  (cancelNotice, :786-812)
CancelledIsSilent ==
  \A n \in Notices :
    notice[n].st = "CANCELLED" /\ rows[n] = "queued" => past[n].raced \/ past[n].misfiled

\* No high-impact notice is published without a decision that approves it or a
\* policy of the app that asks for none, unless an edit raised its priority
\* while another handler was already at work on the draft.
HighImpactWasApproved ==
  \A n \in Notices :
    notice[n].st = "PUBLISHED" /\ notice[n].prio # "NORMAL" =>
      past[n].approved \/ past[n].raised

\* A due notice is published or taken off the schedule, and a published one
\* past its expiry is retired, unless a notice that the cron must refuse is due
\* in the school: that one stops every run of the cron before the others.  It
\* takes two things of the school: from some time on the cron finds a user to
\* act for, and every due notice has recipients, since one that has none stops
\* the runs as well.  (processScheduledNotices, :1946-1955, the refusals at
\* :665-685, and notice-lifecycle.cron.ts:46-57)
Blocked == \E n \in Notices : Due(n) /\ ~MayPublish(notice[n], "recipients")
Waits(n) == Due(n) \/ Overdue(n)
Skipped(p) == At(p, "actor") /\ At(p, "idle")'
Unreached(p) ==
  /\ At(p, "loop") /\ At(p, "idle")'
  /\ \E n \in proc[p].due : MayPublish(notice[n], "recipients")
Served == <>[][\A p \in Crons : ~Skipped(p) /\ ~Unreached(p)]_vars
DueIsHandled == Served => \A n \in Notices : Waits(n) ~> (~Waits(n) \/ Blocked)
=============================================================================
