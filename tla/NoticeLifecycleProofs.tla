------------------------- MODULE NoticeLifecycleProofs -------------------------
(***************************************************************************)
(* A publication is claimed once, for any number of notices, requests and  *)
(* runs of the cron.  The argument: a claim needs a notice that is not     *)
(* published and leaves it published, and only a write that is counted as  *)
(* a reopening takes publishedAt away.                                     *)
(***************************************************************************)
EXTENDS NoticeLifecycle, TLAPS

HasPublished(v) == "published" \in DOMAIN v /\ v.published \in BOOLEAN

\* Claims never outnumber reopenings, but for the one of a published notice.
Balanced(v, h) ==
  /\ {"claims", "reopened"} \subseteq DOMAIN h
  /\ h.claims \in Nat /\ h.reopened \in Nat
  /\ h.claims <= h.reopened + 1
  /\ ~v.published => h.claims <= h.reopened

ClaimInv ==
  /\ DOMAIN notice = Notices /\ DOMAIN past = Notices
  /\ \A n \in Notices : HasPublished(notice[n]) /\ Balanced(notice[n], past[n])

LEMMA InitClaim == Init => ClaimInv
  BY DEF Init, ClaimInv, NoNotice, NoPast, HasPublished, Balanced

\* The write of a row by its id keeps the count, whoever makes it.
LEMMA PutClaim ==
  ASSUME ClaimInv, NEW p, NEW v, Put(p, v),
         proc[p].n \in Notices => HasPublished(v)
  PROVE  ClaimInv'
<1> DEFINE n == proc[p].n
<1>1. CASE n \in Notices
  <2>1. notice' = [notice EXCEPT ![n] = v]
    BY DEF Put
  <2>2. DOMAIN notice' = Notices /\ notice'[n] = v /\ \A m \in Notices \ {n} : notice'[m] = notice[m]
    BY <1>1, <2>1 DEF ClaimInv
  <2>3. /\ DOMAIN past' = Notices
        /\ \A m \in Notices \ {n} : past'[m] = past[m]
        /\ DOMAIN past'[n] = DOMAIN past[n]
        /\ past'[n].claims = past[n].claims
        /\ past'[n].reopened = IF notice[n].published /\ ~v.published
                               THEN past[n].reopened + 1 ELSE past[n].reopened
    BY <1>1 DEF Put, ClaimInv, Balanced, Reopens, Races, Misfiles, Raises
  <2>4. Balanced(v, past'[n])
    BY <1>1, <2>3 DEF ClaimInv, Balanced, HasPublished
  <2> QED
    BY <1>1, <2>2, <2>3, <2>4 DEF ClaimInv
<1>2. CASE n \notin Notices
  BY <1>2 DEF Put, ClaimInv
<1> QED
  BY <1>1, <1>2

LEMMA WriteClaim == ASSUME ClaimInv, NEW p \in Procs, Write(p) PROVE ClaimInv'
<1> DEFINE v == notice[proc[p].n]  arg == proc[p].arg
<1>1. proc[p].n \in Notices => HasPublished(v)
  BY DEF ClaimInv, HasPublished
<1>2. CASE At(p, "edit") /\ Put(p, Edited(v, arg))
  BY <1>1, <1>2, PutClaim DEF Edited, HasPublished
<1>3. CASE At(p, "schedule") /\ Put(p, Scheduled(v))
  BY <1>1, <1>3, PutClaim DEF Scheduled, HasPublished
<1>4. CASE At(p, "cancel") /\ Put(p, Cancelled(v))
  BY <1>1, <1>4, PutClaim DEF Cancelled, HasPublished
<1>5. CASE At(p, "archive") /\ Put(p, Archived(v, arg))
  BY <1>1, <1>5, PutClaim DEF Archived, HasPublished
<1>6. CASE At(p, "restore") /\ Put(p, Restored(v, arg))
  BY <1>1, <1>6, PutClaim DEF Restored, HasPublished
<1> QED
  BY <1>2, <1>3, <1>4, <1>5, <1>6 DEF Write

LEMMA ClaimClaim == ASSUME ClaimInv, NEW p \in Procs, Claim(p) PROVE ClaimInv'
<1> DEFINE n == proc[p].n
<1>1. CASE MayClaim(notice[n], proc[p].arg) /\ n \in Notices
  <2>1. /\ notice' = [notice EXCEPT ![n].st = "PUBLISHED", ![n].published = TRUE, ![n].sched = "none"]
        /\ past' = [past EXCEPT ![n].claims = @ + 1]
    BY <1>1 DEF Claim
  <2>2. past[n].claims <= past[n].reopened
    BY <1>1 DEF MayClaim, ClaimInv, Balanced
  <2>3. /\ DOMAIN notice' = Notices
        /\ \A m \in Notices \ {n} : notice'[m] = notice[m]
        /\ DOMAIN notice'[n] = DOMAIN notice[n]
        /\ notice'[n].published = TRUE
    BY <1>1, <2>1 DEF ClaimInv, HasPublished
  <2>4. /\ DOMAIN past' = Notices
        /\ \A m \in Notices \ {n} : past'[m] = past[m]
        /\ DOMAIN past'[n] = DOMAIN past[n]
        /\ past'[n].claims = past[n].claims + 1
        /\ past'[n].reopened = past[n].reopened
    BY <1>1, <2>1 DEF ClaimInv, Balanced
  <2>5. HasPublished(notice'[n])
    BY <1>1, <2>3 DEF ClaimInv, HasPublished
  <2>6. Balanced(notice'[n], past'[n])
    BY <1>1, <2>2, <2>3, <2>4 DEF ClaimInv, Balanced
  <2> QED
    BY <1>1, <2>3, <2>4, <2>5, <2>6 DEF ClaimInv
<1>2. CASE ~MayClaim(notice[n], proc[p].arg)
  BY <1>2 DEF Claim, ClaimInv
<1>3. CASE n \notin Notices
  BY <1>3 DEF Claim, ClaimInv
<1> QED
  BY <1>1, <1>2, <1>3

\* A step that leaves publishedAt and both counts alone.
LEMMA QuietClaim ==
  ASSUME ClaimInv, DOMAIN notice' = Notices, DOMAIN past' = Notices,
         \A n \in Notices :
           /\ DOMAIN notice'[n] = DOMAIN notice[n]
           /\ notice'[n].published = notice[n].published
           /\ DOMAIN past'[n] = DOMAIN past[n]
           /\ past'[n].claims = past[n].claims
           /\ past'[n].reopened = past[n].reopened
  PROVE  ClaimInv'
  BY DEF ClaimInv, HasPublished, Balanced

LEMMA CallClaim ==
  ASSUME ClaimInv, NEW p \in Requests, NEW n \in Notices, Call(p, n)
  PROVE  ClaimInv'
<1>1. CASE CreateNotice(p, n)
  <2>1. DOMAIN notice' = Notices /\ DOMAIN past' = Notices
    BY <1>1 DEF CreateNotice, ClaimInv
  <2>2. \A m \in Notices \ {n} : notice'[m] = notice[m] /\ past'[m] = past[m]
    BY <1>1 DEF CreateNotice, ClaimInv
  <2>3. CASE past' = [past EXCEPT ![n].claims = 1] /\
             notice' = [notice EXCEPT ![n].st = "PUBLISHED", ![n].published = TRUE]
    <3>1. HasPublished(notice'[n]) /\ notice'[n].published = TRUE
      BY <2>3 DEF ClaimInv, HasPublished
    <3>2. /\ DOMAIN past'[n] = DOMAIN past[n]
          /\ past'[n].claims = 1 /\ past'[n].reopened = past[n].reopened
      BY <2>3 DEF ClaimInv, Balanced
    <3>3. Balanced(notice'[n], past'[n])
      BY <3>1, <3>2 DEF ClaimInv, Balanced
    <3> QED
      BY <2>1, <2>2, <3>1, <3>3 DEF ClaimInv
  <2>4. CASE UNCHANGED past /\ notice' = [notice EXCEPT ![n].st = "SCHEDULED", ![n].sched = "future"]
    BY <2>1, <2>4, QuietClaim DEF ClaimInv, HasPublished
  <2> QED
    BY <1>1, <2>3, <2>4 DEF CreateNotice
<1>2. CASE CreateNoticeDraft(p, n)
  BY <1>2, QuietClaim DEF CreateNoticeDraft, ClaimInv, HasPublished
<1>3. CASE SubmitEmergencyNotice(p, n)
  <2>1. /\ DOMAIN notice' = Notices
        /\ \A m \in Notices : /\ DOMAIN notice'[m] = DOMAIN notice[m]
                              /\ notice'[m].published = notice[m].published
    BY <1>3 DEF SubmitEmergencyNotice, ClaimInv, HasPublished
  <2>2. /\ DOMAIN past' = Notices
        /\ \A m \in Notices : /\ DOMAIN past'[m] = DOMAIN past[m]
                              /\ past'[m].claims = past[m].claims
                              /\ past'[m].reopened = past[m].reopened
    BY <1>3 DEF SubmitEmergencyNotice, ClaimInv, Balanced
  <2> QED
    BY <2>1, <2>2, QuietClaim
<1>4. CASE UNCHANGED <<notice, past>>
  BY <1>4, QuietClaim DEF ClaimInv
<1> QED
  BY <1>1, <1>2, <1>3, <1>4
  DEF Call, UpdateNoticeDraft, ScheduleNotice, CancelNotice, ArchiveNotice, RestoreNotice,
      PublishPreparedNotice, RequestApproval, Decide, RetryFinalAction

LEMMA StepClaim == ASSUME ClaimInv, NEW p \in Procs, Step(p) PROVE ClaimInv'
<1> DEFINE v == notice[proc[p].n]
<1>1. proc[p].n \in Notices => HasPublished(v)
  BY DEF ClaimInv
<1>2. CASE Write(p)
  BY <1>2, WriteClaim
<1>3. CASE Claim(p)
  BY <1>3, ClaimClaim
<1>4. CASE Defer(p)
  BY <1>1, <1>4, PutClaim DEF Defer, Scheduled, HasPublished
<1>5. CASE WritePublished(p)
  <2>1. CASE UNCHANGED <<notice, past>>
    BY <2>1, QuietClaim DEF ClaimInv
  <2>2. CASE Put(p, [v EXCEPT !.st = "PUBLISHED", !.published = TRUE, !.sched = "none"])
    BY <1>1, <2>2, PutClaim DEF HasPublished
  <2> QED
    BY <1>5, <2>1, <2>2 DEF WritePublished
<1>6. CASE MarkNoticeApprovalPending(p)
  BY <1>1, <1>6, PutClaim DEF MarkNoticeApprovalPending, HasPublished
<1>7. CASE MarkNoticeApproved(p)
  BY <1>1, <1>7, PutClaim DEF MarkNoticeApproved, HasPublished
<1>8. CASE RecordDeliveryRecords(p)
  BY <1>8, QuietClaim DEF RecordDeliveryRecords, ClaimInv, Balanced
<1>9. CASE CommitDecision(p)
  BY <1>9, QuietClaim DEF CommitDecision, ClaimInv, Balanced
<1>10. CASE ProcessExpiredNotices(p)
  BY <1>10, QuietClaim DEF ProcessExpiredNotices, ClaimInv, Balanced, HasPublished
<1>11. CASE UNCHANGED <<notice, past>>
  BY <1>11, QuietClaim DEF ClaimInv
<1> QED
  BY <1>2, <1>3, <1>4, <1>5, <1>6, <1>7, <1>8, <1>9, <1>10, <1>11
  DEF Step, CronStep, PublishNotice, Accept, CreateRequest, ReadForMark, ApplyFinalAction,
      EndFinalAction, ProcessDueNoticeLifecycle, ResolveSystemActor, ProcessScheduledNotices

LEMMA NextClaim == ClaimInv /\ [Next]_vars => ClaimInv'
<1> SUFFICES ASSUME ClaimInv, [Next]_vars PROVE ClaimInv'
  OBVIOUS
<1>1. CASE \E p \in Procs : Step(p)
  BY <1>1, StepClaim
<1>2. CASE \E p \in Procs : Crash(p)
  BY <1>2, QuietClaim DEF Crash, ClaimInv, Balanced
<1>3. CASE \E p \in Requests, n \in Notices \ Waiting : Call(p, n)
  BY <1>3, CallClaim
<1>4. CASE \E n \in Notices : ScheduledTimeComes(n)
  BY <1>4, QuietClaim DEF ScheduledTimeComes, ClaimInv, HasPublished
<1>5. CASE \E n \in Notices : ExpiryComes(n)
  BY <1>5, QuietClaim DEF ExpiryComes, ClaimInv, HasPublished
<1>6. CASE UNCHANGED vars
  BY <1>6, QuietClaim DEF vars, ClaimInv
<1> QED
  BY <1>1, <1>2, <1>3, <1>4, <1>5, <1>6 DEF Next

\* No claim of a notice is repeated, however requests, approvals and runs of the
\* cron race and die, unless a write that is counted has taken the publication
\* back in between.  (publishPreparedNotice, communications.service.ts:686-715)
THEOREM ClaimedOnce == Spec => []PublicationsAreClaimed
<1>1. ClaimInv => PublicationsAreClaimed
  BY DEF ClaimInv, Balanced, PublicationsAreClaimed
<1> QED
  BY InitClaim, NextClaim, <1>1, PTL DEF Spec

-----------------------------------------------------------------------------
(***************************************************************************)
(* What the handlers have read, and what has become of it.                 *)
(***************************************************************************)
NoticeRows ==
  [st : Statuses \cup {"none"}, prio : Priorities, published : BOOLEAN, sched : Times,
   expiry : Times, mobile : BOOLEAN, from : (Statuses \ {"ARCHIVED"}) \cup {"none"}]
ApprovalRows ==
  [st : {"none", "PENDING", "APPROVED", "REJECTED", "APPLIED", "APPLY_FAILED"},
   step : {"PENDING", "APPROVED", "REJECTED"}, sched : Times, mobile : BOOLEAN]
PastRows ==
  [claims : Nat, reopened : Nat, lost : BOOLEAN, raced : BOOLEAN, misfiled : BOOLEAN,
   raised : BOOLEAN, approved : BOOLEAN]
Steps ==
  {"idle", "actor", "loop", "edit", "schedule", "cancel", "archive", "restore", "claim", "send",
   "defer", "write", "accept", "record", "request", "pending", "markPending", "decide", "apply", "approve",
   "markApproved", "APPLIED", "APPLY_FAILED"}
Args ==
  Statuses \cup Times \cup Edits \cup {"REJECTED", "published", "unpublished", None}
ProcRows ==
  [pc : Steps, n : Notices \cup {None}, via : {"web", "mobile", "approval", "cron"}, arg : Args,
   due : SUBSET Notices]

Typed ==
  /\ notice \in [Notices -> NoticeRows]
  /\ event \in [Notices -> {"none", "ACCEPTED", "DISPATCHED", "FAILED"}]
  /\ rows \in [Notices -> {"none", "queued", "cancelled"}]
  /\ approval \in [Notices -> ApprovalRows]
  /\ proc \in [Procs -> ProcRows]
  /\ past \in [Notices -> PastRows]
  /\ spent \in [ops : Nat, faults : Nat]

\* A handler at work is about a notice that exists, and knows what it needs.
Resting(r) == r.pc = "idle" \/ (r.pc \in {"actor", "loop"} /\ r.via = "cron")
Working(r) == ~Resting(r)
Knows(r) ==
  /\ Working(r) => r.n \in Notices /\ r.pc \notin {"actor", "loop"}
  /\ r.pc = "edit" => r.arg \in Edits
  /\ r.pc = "archive" => r.arg \in Statuses \ {"ARCHIVED"}
  /\ r.pc = "restore" => r.arg \in Statuses \ {"ARCHIVED"}
  /\ r.pc = "claim" => r.arg \in {"DRAFT", "APPROVED", "SCHEDULED"} /\ r.via \in {"web", "cron"}
  /\ r.pc = "decide" => r.arg \in {"APPROVED", "REJECTED"}
  /\ r.pc \in {"request", "approve", "markApproved", "send"} => r.arg \in Times

\* Only an approval, or a policy that asks for none, leads to these steps.
OnApproval(r) ==
  \/ r.pc \in {"apply", "approve", "markApproved", "send", "defer", "write"}
  \/ r.pc \in {"accept", "record"} /\ r.via \in {"mobile", "approval"}
  \/ r.pc \in {"claim", "archive", "restore"} /\ r.arg = "APPROVED"

\* What a handler that has read the notice n may still do to it, and what its
\* row may be, when h is past[n].
ProcVetted(r, v, h) ==
  /\ v.st # "none"
  /\ OnApproval(r) => h.approved
  /\ v.prio # "NORMAL" /\ ~h.approved /\ ~h.raised =>
       r.pc # "claim" /\ ~(r.pc \in {"archive", "restore"} /\ r.arg = "PUBLISHED")

RowVetted(v, a, h) ==
  /\ v.st = "none" => v.prio = "NORMAL" /\ ~v.mobile
  /\ "APPROVED" \in {v.st, v.from, a.st} => h.approved
  /\ v.prio # "NORMAL" /\ ~h.approved /\ ~h.raised =>
       v.st # "PUBLISHED" /\ ~(v.st = "ARCHIVED" /\ v.from = "PUBLISHED")

Vetted ==
  /\ \A n \in Notices : RowVetted(notice[n], approval[n], past[n])
  /\ \A p \in Procs : Working(proc[p]) =>
       ProcVetted(proc[p], notice[proc[p].n], past[proc[p].n])

\* A cancellation, in the archive too, is of a notice nobody announces.
Withdrawal(v) == v.st = "CANCELLED" \/ (v.st = "ARCHIVED" /\ v.from = "CANCELLED")
Silent ==
  \A n \in Notices :
    Withdrawal(notice[n]) /\ ~past[n].raced /\ ~past[n].misfiled => rows[n] # "queued" /\ ~Owed(n)

\* The publication of a claim is announced, or is being announced.
Heard ==
  \A n \in Notices :
    past[n].claims > past[n].reopened /\ ~past[n].raced /\ ~past[n].lost /\ rows[n] = "none" =>
      notice[n].st = "PUBLISHED" /\ Owed(n)

NoticeInv ==
  /\ Typed /\ Vetted /\ Silent /\ Heard
  /\ \A p \in Procs : Knows(proc[p])

\* The step of a process that writes no notice: it goes on as r.
Announces(r, n) == r.n = n /\ r.pc \in {"accept", "record"}

\* What has happened to a notice stays, but that it may be approved.
PastKept ==
  /\ past' \in [Notices -> PastRows]
  /\ \A n \in Notices :
       /\ past'[n].claims = past[n].claims /\ past'[n].reopened = past[n].reopened
       /\ past'[n].lost = past[n].lost /\ past'[n].raced = past[n].raced
       /\ past'[n].misfiled = past[n].misfiled /\ past'[n].raised = past[n].raised
       /\ past[n].approved => past'[n].approved

LEMMA PastUnmoved == ASSUME NoticeInv, past' = past PROVE PastKept
  BY DEF NoticeInv, Typed, PastKept

LEMMA ProcMoved ==
  ASSUME NoticeInv, NEW p \in Procs, NEW r \in ProcRows, proc' = [proc EXCEPT ![p] = r]
  PROVE  /\ proc' \in [Procs -> ProcRows] /\ proc'[p] = r
         /\ \A q \in Procs : q # p => proc'[q] = proc[q]
         /\ \A n : Owed(n)' <=> Announces(r, n) \/ \E q \in Procs \ {p} : Announcing(q, n)
         /\ \A n : Owed(n) <=> Announces(proc[p], n) \/ \E q \in Procs \ {p} : Announcing(q, n)
<1>1. /\ proc' \in [Procs -> ProcRows] /\ proc'[p] = r
      /\ \A q \in Procs : q # p => proc'[q] = proc[q]
  BY DEF NoticeInv, Typed
<1> QED
  BY <1>1 DEF Owed, Announcing, Announces

LEMMA Moves ==
  ASSUME NoticeInv, NEW p \in Procs, NEW r \in ProcRows, proc' = [proc EXCEPT ![p] = r],
         UNCHANGED <<notice, rows>>, PastKept,
         event' \in [Notices -> {"none", "ACCEPTED", "DISPATCHED", "FAILED"}],
         approval' \in [Notices -> ApprovalRows],
         \A n \in Notices : approval'[n].st = "APPROVED" => past'[n].approved,
         spent' \in [ops : Nat, faults : Nat], Knows(r),
         Working(r) => ProcVetted(r, notice[r.n], past'[r.n]),
         \A n \in Notices : Announces(r, n) => ~Withdrawal(notice[n]) \/ Announces(proc[p], n),
         \A n \in Notices : Announces(proc[p], n) => Announces(r, n) \/ notice[n].st # "PUBLISHED"
  PROVE  NoticeInv'
<1>1. /\ proc' \in [Procs -> ProcRows] /\ proc'[p] = r
      /\ \A q \in Procs : q # p => proc'[q] = proc[q]
      /\ \A n : Owed(n)' <=> Announces(r, n) \/ \E q \in Procs \ {p} : Announcing(q, n)
      /\ \A n : Owed(n) <=> Announces(proc[p], n) \/ \E q \in Procs \ {p} : Announcing(q, n)
  BY ProcMoved
<1>2. Typed'
  BY <1>1 DEF NoticeInv, Typed, PastKept
<1>3. \A q \in Procs : Knows(proc'[q])
  BY <1>1 DEF NoticeInv
<1>4. ASSUME NEW n \in Notices PROVE RowVetted(notice[n], approval'[n], past'[n])
  BY DEF NoticeInv, Vetted, RowVetted, PastKept
<1>5. ASSUME NEW q \in Procs, Working(proc'[q])
      PROVE  ProcVetted(proc'[q], notice[proc'[q].n], past'[proc'[q].n])
  <2>1. CASE q = p
    BY <1>1, <1>5, <2>1
  <2>2. CASE q # p
    <3>1. PICK s : s = proc[q]
      OBVIOUS
    <3>2. proc'[q] = s /\ s.n \in Notices /\ ProcVetted(s, notice[s.n], past[s.n])
      BY <1>1, <1>5, <2>2, <3>1 DEF NoticeInv, Vetted, Knows
    <3> QED
      BY <3>2 DEF ProcVetted, PastKept
  <2> QED
    BY <2>1, <2>2
<1>6. Vetted'
  BY <1>4, <1>5 DEF Vetted
<1>7. Silent'
  <2> SUFFICES ASSUME NEW n \in Notices, Withdrawal(notice[n]), ~past'[n].raced, ~past'[n].misfiled
               PROVE  rows[n] # "queued" /\ ~Owed(n)'
    BY DEF Silent
  <2>1. rows[n] # "queued" /\ ~Owed(n)
    BY DEF NoticeInv, Silent, PastKept
  <2> QED
    BY <1>1, <2>1
<1>8. Heard'
  <2> SUFFICES ASSUME NEW n \in Notices, past'[n].claims > past'[n].reopened, ~past'[n].raced,
                      ~past'[n].lost, rows[n] = "none"
               PROVE  notice[n].st = "PUBLISHED" /\ Owed(n)'
    BY DEF Heard
  <2>1. notice[n].st = "PUBLISHED" /\ Owed(n)
    BY DEF NoticeInv, Heard, PastKept
  <2> QED
    BY <1>1, <2>1
<1> QED
  BY <1>2, <1>3, <1>6, <1>7, <1>8 DEF NoticeInv

\* How the history of the notice n changes with a write.
Revised(f, g, n, a, b, c, d) ==
  g = [f EXCEPT ![n].reopened = a, ![n].raced = b, ![n].misfiled = c, ![n].raised = d]

LEMMA PastPut ==
  ASSUME NEW S, NEW f \in [S -> PastRows], NEW n \in S, NEW a \in Nat, NEW b \in BOOLEAN,
         NEW c \in BOOLEAN, NEW d \in BOOLEAN, NEW g,
         Revised(f, g, n, a, b, c, d)
  PROVE  /\ g \in [S -> PastRows]
         /\ \A m \in S : m # n => g[m] = f[m]
         /\ g[n].claims = f[n].claims /\ g[n].lost = f[n].lost /\ g[n].approved = f[n].approved
         /\ g[n].reopened = a /\ (g[n].raced <=> b) /\ (g[n].misfiled <=> c) /\ (g[n].raised <=> d)
<1>1. PICK h : h = f[n] /\ h \in PastRows
  OBVIOUS
<1>2. PICK r : r = [h EXCEPT !.reopened = a, !.raced = b, !.misfiled = c, !.raised = d]
  OBVIOUS
<1>3. g = [f EXCEPT ![n] = r]
  BY <1>1, <1>2, Zenon DEF Revised
<1>4. r \in PastRows
  BY <1>1, <1>2 DEF PastRows
<1>5. g \in [S -> PastRows]
  BY <1>3, <1>4
<1>6. g[n] = r /\ \A m \in S : m # n => g[m] = f[m]
  BY <1>3, <1>4
<1>7. /\ r.claims = h.claims /\ r.lost = h.lost /\ r.approved = h.approved
      /\ r.reopened = a /\ r.raced = b /\ r.misfiled = c /\ r.raised = d
  BY <1>1, <1>2 DEF PastRows
<1> QED
  BY <1>1, <1>5, <1>6, <1>7

\* ... what it becomes, when process p writes v.
PastWritten(p, v, n, a, b, c, d) ==
  /\ b \in BOOLEAN /\ c \in BOOLEAN /\ d \in BOOLEAN
  /\ a = (IF Reopens(n, v) THEN past[n].reopened + 1 ELSE past[n].reopened)
  /\ b <=> (past[n].raced \/ Races(p, n))
  /\ c <=> (past[n].misfiled \/ Misfiles(p))
  /\ d <=> (past[n].raised \/ Raises(p, n, v))
  /\ Revised(past, past', n, a, b, c, d)

LEMMA PutChoice ==
  ASSUME past \in [Notices -> PastRows], NEW p \in Procs, NEW v, proc[p].n \in Notices, Put(p, v)
  PROVE  \E n, a, b, c, d : n = proc[p].n /\ PastWritten(p, v, n, a, b, c, d)
  BY ZenonT(60) DEF Put, PastWritten, Revised

LEMMA PutPast ==
  ASSUME past \in [Notices -> PastRows], NEW p \in Procs, NEW v, NEW n \in Notices, n = proc[p].n, Put(p, v)
  PROVE  /\ past' \in [Notices -> PastRows]
         /\ \A m \in Notices : m # n => past'[m] = past[m]
         /\ past'[n].claims = past[n].claims /\ past'[n].lost = past[n].lost
         /\ past'[n].approved = past[n].approved
         /\ past'[n].reopened >= past[n].reopened
         /\ past'[n].raced <=> past[n].raced \/ Races(p, n)
         /\ past'[n].misfiled <=> past[n].misfiled \/ Misfiles(p)
         /\ past'[n].raised <=> past[n].raised \/ Raises(p, n, v)
<1>1. PICK m : m = proc[p].n /\ \E a, b, c, d : PastWritten(p, v, m, a, b, c, d)
  BY PutChoice, Zenon
<1>2. PICK a, b, c, d : PastWritten(p, v, m, a, b, c, d)
  BY <1>1, Zenon
<1>3. /\ m = n /\ b \in BOOLEAN /\ c \in BOOLEAN /\ d \in BOOLEAN
      /\ a = (IF Reopens(n, v) THEN past[n].reopened + 1 ELSE past[n].reopened)
      /\ b <=> (past[n].raced \/ Races(p, n))
      /\ c <=> (past[n].misfiled \/ Misfiles(p))
      /\ d <=> (past[n].raised \/ Raises(p, n, v))
  <2>1. m = n
    BY <1>1
  <2>2. PastWritten(p, v, n, a, b, c, d)
    BY <1>2, <2>1, Zenon
  <2> QED
    BY <2>1, <2>2, Zenon DEF PastWritten
<1>4. past[n].reopened \in Nat
  BY DEF PastRows
<1>5. a \in Nat /\ a >= past[n].reopened
  BY <1>3, <1>4
<1>6. PICK f, g : f = past /\ g = past'
  OBVIOUS
<1>7. Revised(f, g, n, a, b, c, d)
  BY <1>2, <1>3, <1>6, Zenon DEF PastWritten
<1>8. /\ g \in [Notices -> PastRows]
      /\ \A k \in Notices : k # n => g[k] = f[k]
      /\ g[n].claims = f[n].claims /\ g[n].lost = f[n].lost /\ g[n].approved = f[n].approved
      /\ g[n].reopened = a /\ (g[n].raced <=> b) /\ (g[n].misfiled <=> c) /\ (g[n].raised <=> d)
  <2>1. f \in [Notices -> PastRows]
    BY <1>6
  <2> QED
    BY ONLY <2>1, <1>3, <1>5, <1>7, n \in Notices, PastPut
<1>9. /\ past' \in [Notices -> PastRows]
      /\ \A k \in Notices : k # n => past'[k] = past[k]
      /\ past'[n].claims = past[n].claims /\ past'[n].lost = past[n].lost
      /\ past'[n].approved = past[n].approved
      /\ past'[n].reopened >= past[n].reopened
  BY <1>5, <1>6, <1>8
<1>10. /\ past'[n].raced <=> past[n].raced \/ Races(p, n)
       /\ past'[n].misfiled <=> past[n].misfiled \/ Misfiles(p)
       /\ past'[n].raised <=> past[n].raised \/ Raises(p, n, v)
  BY <1>3, <1>6, <1>8, Zenon
<1> QED
  BY ONLY <1>9, <1>10

\* The write of a row by its id.
LEMMA PutFacts ==
  ASSUME NoticeInv, NEW p \in Procs, NEW v \in NoticeRows, NEW n \in Notices, n = proc[p].n, Put(p, v)
  PROVE  /\ notice' \in [Notices -> NoticeRows] /\ notice'[n] = v
         /\ past' \in [Notices -> PastRows]
         /\ \A m \in Notices : m # n => notice'[m] = notice[m] /\ past'[m] = past[m]
         /\ past'[n].claims = past[n].claims /\ past'[n].lost = past[n].lost
         /\ past'[n].approved = past[n].approved
         /\ past'[n].reopened >= past[n].reopened
         /\ past[n].raced => past'[n].raced
         /\ past[n].misfiled => past'[n].misfiled
         /\ past[n].raised => past'[n].raised
         /\ Misfiles(p) => past'[n].misfiled
         /\ \A q \in Procs \ {p} : Announcing(q, n) => past'[n].raced
         /\ notice[n].prio = "NORMAL" /\ v.prio # "NORMAL" /\ ~past'[n].raised =>
              notice[n].st = "DRAFT" /\ \A q \in Procs \ {p} : proc[q].n # n
<1>1. notice \in [Notices -> NoticeRows] /\ past \in [Notices -> PastRows]
  BY DEF NoticeInv, Typed
<1>2. notice' = [notice EXCEPT ![n] = v]
  BY DEF Put
<1>3. /\ notice' \in [Notices -> NoticeRows] /\ notice'[n] = v
      /\ \A m \in Notices : m # n => notice'[m] = notice[m]
  BY <1>1, <1>2
<1>4. /\ past' \in [Notices -> PastRows]
      /\ \A m \in Notices : m # n => past'[m] = past[m]
      /\ past'[n].claims = past[n].claims /\ past'[n].lost = past[n].lost
      /\ past'[n].approved = past[n].approved
      /\ past'[n].reopened >= past[n].reopened
      /\ past'[n].raced <=> past[n].raced \/ Races(p, n)
      /\ past'[n].misfiled <=> past[n].misfiled \/ Misfiles(p)
      /\ past'[n].raised <=> past[n].raised \/ Raises(p, n, v)
  BY <1>1, PutPast
<1>5. \A q \in Procs \ {p} : Announcing(q, n) => Races(p, n)
  BY DEF Races
<1>6. notice[n].prio = "NORMAL" /\ v.prio # "NORMAL" /\ ~Raises(p, n, v) =>
        notice[n].st = "DRAFT" /\ \A q \in Procs \ {p} : proc[q].n # n
  BY DEF Raises
<1> QED
  BY <1>3, <1>4, <1>5, <1>6

\* The write of a handler that had read the row, and then goes on as r.  What
\* is to be shown of it is said of the row it leaves.
LEMMA Writes ==
  ASSUME NoticeInv, NEW p \in Procs, NEW v \in NoticeRows, NEW n \in Notices, n = proc[p].n, Put(p, v),
         proc[p].pc \notin {"accept", "record"},
         NEW r \in ProcRows, proc' = [proc EXCEPT ![p] = r], Knows(r), Working(r) => r.n = n,
         r.pc \notin {"accept", "record"},
         UNCHANGED <<event, approval, spent>>,
         rows' \in [Notices -> {"none", "queued", "cancelled"}],
         \A m \in Notices : m # n => rows'[m] = rows[m],
         rows'[n] = rows[n] \/ (rows'[n] = "cancelled" /\ rows[n] = "queued"),
         v.st # "none",
         RowVetted(v, approval[n], past'[n]),
         Working(r) => ProcVetted(r, v, past'[n]),
         Withdrawal(v) /\ ~past'[n].misfiled /\ ~past'[n].raced => rows'[n] # "queued"
  PROVE  NoticeInv'
<1>1. /\ proc' \in [Procs -> ProcRows] /\ proc'[p] = r
      /\ \A q \in Procs : q # p => proc'[q] = proc[q]
      /\ \A m : Owed(m)' <=> Announces(r, m) \/ \E q \in Procs \ {p} : Announcing(q, m)
      /\ \A m : Owed(m) <=> Announces(proc[p], m) \/ \E q \in Procs \ {p} : Announcing(q, m)
  BY ProcMoved
<1>2. PICK h, g : h = past[n] /\ g = past'[n]
  OBVIOUS
<1>3. /\ notice' \in [Notices -> NoticeRows] /\ notice'[n] = v
      /\ past' \in [Notices -> PastRows]
      /\ \A m \in Notices : m # n => notice'[m] = notice[m] /\ past'[m] = past[m]
      /\ g.claims = h.claims /\ g.lost = h.lost /\ g.approved = h.approved
      /\ g.reopened >= h.reopened /\ (h.raced => g.raced)
      /\ (h.raised => g.raised)
      /\ \A q \in Procs \ {p} : Announcing(q, n) => g.raced
      /\ notice[n].prio = "NORMAL" /\ v.prio # "NORMAL" /\ ~g.raised =>
           \A q \in Procs \ {p} : proc[q].n # n
  BY <1>2, PutFacts
<1>4. Typed'
  BY <1>1, <1>3 DEF NoticeInv, Typed
<1>5. \A q \in Procs : Knows(proc'[q])
  BY <1>1 DEF NoticeInv
<1>6. ASSUME NEW m \in Notices PROVE RowVetted(notice'[m], approval[m], past'[m])
  <2>1. CASE m = n
    BY <1>3, <2>1
  <2>2. CASE m # n
    BY <1>3, <2>2 DEF NoticeInv, Vetted
  <2> QED
    BY <2>1, <2>2
<1>7. ASSUME NEW q \in Procs, Working(proc'[q])
      PROVE  ProcVetted(proc'[q], notice'[proc'[q].n], past'[proc'[q].n])
  <2>1. CASE q = p
    BY <1>1, <1>3, <1>7, <2>1
  <2>2. CASE q # p
    <3>1. PICK s : s = proc[q]
      OBVIOUS
    <3>2. proc'[q] = s /\ s.n \in Notices /\ ProcVetted(s, notice[s.n], past[s.n])
      BY <1>1, <1>7, <2>2, <3>1 DEF NoticeInv, Vetted, Knows
    <3>3. CASE s.n # n
      BY <1>3, <3>2, <3>3
    <3>4. CASE s.n = n
      <4>1. ProcVetted(s, notice[n], h)
        BY <1>2, <3>2, <3>4
      <4>2. v.prio # "NORMAL" /\ ~g.raised => notice[n].prio # "NORMAL"
        BY <1>3, <2>2, <3>1, <3>4
      <4>3. ProcVetted(s, v, g)
        BY <1>3, <4>1, <4>2 DEF ProcVetted
      <4> QED
        BY <1>2, <1>3, <3>2, <3>4, <4>3
    <3> QED
      BY <3>3, <3>4
  <2> QED
    BY <2>1, <2>2
<1>8. Vetted'
  BY <1>6, <1>7 DEF Vetted
<1>9. ~Announces(r, n) /\ (\A m : ~Announces(proc[p], m)) /\ (\A m : ~Announces(r, m))
  BY DEF Announces
<1>10. Silent'
  <2> SUFFICES ASSUME NEW m \in Notices, Withdrawal(notice'[m]), ~past'[m].raced, ~past'[m].misfiled
               PROVE  rows'[m] # "queued" /\ ~Owed(m)'
    BY DEF Silent
  <2>1. CASE m = n
    BY <1>1, <1>2, <1>3, <1>9, <2>1
  <2>2. CASE m # n
    <3>1. rows[m] # "queued" /\ ~Owed(m)
      BY <1>3, <2>2 DEF NoticeInv, Silent
    <3> QED
      BY <1>1, <1>9, <2>2, <3>1
  <2> QED
    BY <2>1, <2>2
<1>11. Heard'
  <2> SUFFICES ASSUME NEW m \in Notices, past'[m].claims > past'[m].reopened, ~past'[m].raced,
                      ~past'[m].lost, rows'[m] = "none"
               PROVE  notice'[m].st = "PUBLISHED" /\ Owed(m)'
    BY DEF Heard
  <2>1. CASE m = n
    <3>1. rows[n] = "none"
      BY <2>1
    <3>2. h \in PastRows /\ g \in PastRows
      BY <1>2, <1>3 DEF NoticeInv, Typed
    <3>3. h.claims > h.reopened
      BY <1>2, <1>3, <2>1, <3>2 DEF PastRows
    <3>4. Owed(n)
      BY <1>2, <1>3, <2>1, <3>1, <3>3 DEF NoticeInv, Heard
    <3> QED
      BY <1>1, <1>2, <1>3, <1>9, <2>1, <3>4
  <2>2. CASE m # n
    <3>1. notice[m].st = "PUBLISHED" /\ Owed(m)
      BY <1>3, <2>2 DEF NoticeInv, Heard
    <3> QED
      BY <1>1, <1>3, <1>9, <2>2, <3>1
  <2> QED
    BY <2>1, <2>2
<1> QED
  BY <1>4, <1>5, <1>8, <1>10, <1>11 DEF NoticeInv

\* ... and a step that is only the handler's own.
LEMMA Walks ==
  ASSUME NoticeInv, NEW p \in Procs, NEW r \in ProcRows, proc' = [proc EXCEPT ![p] = r],
         UNCHANGED <<notice, event, rows, approval, past>>,
         spent' \in [ops : Nat, faults : Nat], Knows(r),
         Working(r) => ProcVetted(r, notice[r.n], past[r.n]),
         \A n \in Notices : Announces(r, n) => ~Withdrawal(notice[n]) \/ Announces(proc[p], n),
         \A n \in Notices : Announces(proc[p], n) => Announces(r, n) \/ notice[n].st # "PUBLISHED"
  PROVE  NoticeInv'
<1>1. PastKept
  BY PastUnmoved
<1>2. event' \in [Notices -> {"none", "ACCEPTED", "DISPATCHED", "FAILED"}] /\ approval' \in [Notices -> ApprovalRows]
  BY DEF NoticeInv, Typed
<1>3. \A n \in Notices : approval'[n].st = "APPROVED" => past'[n].approved
  BY DEF NoticeInv, Vetted, RowVetted
<1> QED
  BY <1>1, <1>2, <1>3, Moves

\* What is known of the handler p.
LEMMA AtWork ==
  ASSUME NoticeInv, NEW p \in Procs
  PROVE  /\ proc[p] \in ProcRows /\ Knows(proc[p])
         /\ spent \in [ops : Nat, faults : Nat]
         /\ Working(proc[p]) =>
              /\ proc[p].n \in Notices /\ notice[proc[p].n] \in NoticeRows
              /\ past[proc[p].n] \in PastRows /\ approval[proc[p].n] \in ApprovalRows
              /\ ProcVetted(proc[p], notice[proc[p].n], past[proc[p].n])
              /\ RowVetted(notice[proc[p].n], approval[proc[p].n], past[proc[p].n])
<1>1. /\ proc[p] \in ProcRows /\ Knows(proc[p])
      /\ spent \in [ops : Nat, faults : Nat]
  BY DEF NoticeInv, Typed
<1>2. Working(proc[p]) => proc[p].n \in Notices
  BY <1>1 DEF Knows
<1>3. Working(proc[p]) => ProcVetted(proc[p], notice[proc[p].n], past[proc[p].n])
  BY DEF NoticeInv, Vetted
<1>4. \A n \in Notices : notice[n] \in NoticeRows /\ past[n] \in PastRows /\ approval[n] \in ApprovalRows
  BY DEF NoticeInv, Typed
<1>5. \A n \in Notices : RowVetted(notice[n], approval[n], past[n])
  BY DEF NoticeInv, Vetted
<1> QED
  BY <1>1, <1>2, <1>3, <1>4, <1>5

\* What a handler is after each of the moves.
LEMMA GoRow ==
  ASSUME NoticeInv, NEW p \in Procs, NEW pc \in Steps, Go(p, pc)
  PROVE  \E r \in ProcRows :
           /\ proc' = [proc EXCEPT ![p] = r]
           /\ r.pc = pc /\ r.n = proc[p].n /\ r.via = proc[p].via /\ r.arg = proc[p].arg
<1>1. PICK s : s = proc[p] /\ s \in ProcRows
  BY DEF NoticeInv, Typed
<1>2. PICK r : r = [s EXCEPT !.pc = pc]
  OBVIOUS
<1>3. r \in ProcRows /\ r.pc = pc /\ r.n = s.n /\ r.via = s.via /\ r.arg = s.arg
  BY <1>1, <1>2 DEF ProcRows
<1>4. proc' = [proc EXCEPT ![p] = r]
  BY <1>1, <1>2 DEF Go
<1> QED
  BY <1>1, <1>3, <1>4

LEMMA IdleRow == Idle \in ProcRows /\ ~Working(Idle)
  BY DEF Idle, ProcRows, Working, Resting, Steps, Args

LEMMA EndRow ==
  ASSUME NoticeInv, NEW p \in Procs, End(p)
  PROVE  \E r \in ProcRows : proc' = [proc EXCEPT ![p] = r] /\ ~Working(r)
  BY IdleRow DEF End

LEMMA ActorRow ==
  \E r \in ProcRows : ~Working(r) /\ r = [Idle EXCEPT !.pc = "actor", !.via = "cron"]
<1>1. PICK r : r = [Idle EXCEPT !.pc = "actor", !.via = "cron"]
  OBVIOUS
<1>2. r = [pc |-> "actor", n |-> None, via |-> "cron", arg |-> None, due |-> {}]
  BY <1>1 DEF Idle
<1> QED
  BY <1>1, <1>2 DEF ProcRows, Working, Resting, Steps, Args

LEMMA LoopRow ==
  ASSUME NEW due \in SUBSET Notices
  PROVE  \E r \in ProcRows : ~Working(r) /\ r = [Idle EXCEPT !.pc = "loop", !.via = "cron", !.due = due]
<1>1. PICK r : r = [Idle EXCEPT !.pc = "loop", !.via = "cron", !.due = due]
  OBVIOUS
<1>2. r = [pc |-> "loop", n |-> None, via |-> "cron", arg |-> None, due |-> due]
  BY <1>1 DEF Idle
<1> QED
  BY <1>1, <1>2 DEF ProcRows, Working, Resting, Steps, Args

LEMMA DoneRow ==
  ASSUME NoticeInv, NEW p \in Procs, Done(p)
  PROVE  \E r \in ProcRows : proc' = [proc EXCEPT ![p] = r] /\ ~Working(r)
<1>1. CASE proc[p].via = "cron"
  <2>1. PICK due : due = proc[p].due \ {proc[p].n}
    OBVIOUS
  <2>2. due \in SUBSET Notices
    BY <2>1, AtWork DEF ProcRows
  <2> QED
    BY <1>1, <2>1, <2>2, LoopRow DEF Done
<1>2. CASE proc[p].via # "cron"
  BY <1>2, EndRow DEF Done
<1> QED
  BY <1>1, <1>2

LEMMA ThrowRow ==
  ASSUME NoticeInv, NEW p \in Procs, Throw(p)
  PROVE  \E r \in ProcRows :
           /\ proc' = [proc EXCEPT ![p] = r]
           /\ ~Working(r) \/ (r.pc = "APPLY_FAILED" /\ r.n = proc[p].n)
<1>1. CASE proc[p].via = "approval"
  BY <1>1, GoRow DEF Throw, Steps
<1>2. CASE proc[p].via # "approval"
  BY <1>2, EndRow DEF Throw
<1> QED
  BY <1>1, <1>2

LEMMA FinishRow ==
  ASSUME NoticeInv, NEW p \in Procs, Finish(p)
  PROVE  \E r \in ProcRows :
           /\ proc' = [proc EXCEPT ![p] = r]
           /\ ~Working(r) \/ (r.pc = "APPLIED" /\ r.n = proc[p].n)
<1>1. CASE proc[p].via = "approval"
  BY <1>1, GoRow DEF Finish, Steps
<1>2. CASE proc[p].via # "approval"
  BY <1>2, EndRow DEF Finish
<1> QED
  BY <1>1, <1>2

\* After the intake: a publication that still has to be written, or the end.
LEMMA HeardRow ==
  ASSUME NoticeInv, NEW p \in Procs, ListenerFails(p)
  PROVE  \E r \in ProcRows :
           /\ proc' = [proc EXCEPT ![p] = r]
           /\ \/ ~Working(r)
              \/ r.pc = "APPLY_FAILED" /\ r.n = proc[p].n
              \/ r.pc = "write" /\ r.n = proc[p].n /\ proc[p].via \in {"mobile", "approval"}
<1>1. CASE Throw(p)
  BY <1>1, ThrowRow
<1>2. CASE Announced(p) /\ proc[p].via \in {"mobile", "approval"}
  BY <1>2, GoRow DEF Announced, Steps
<1>3. CASE Announced(p) /\ proc[p].via \notin {"mobile", "approval"}
  BY <1>3, DoneRow DEF Announced
<1> QED
  BY <1>1, <1>2, <1>3 DEF ListenerFails

\* A handler that ends, or has only its outcome to tell, and owes nothing.
LEMMA Leaves ==
  ASSUME NoticeInv, NEW p \in Procs, NEW r \in ProcRows, proc' = [proc EXCEPT ![p] = r],
         UNCHANGED <<notice, event, rows, approval, past>>, spent' \in [ops : Nat, faults : Nat],
         ~Working(r) \/ (r.pc \in {"APPLIED", "APPLY_FAILED"} /\ r.n = proc[p].n /\ Working(proc[p])),
         \A n \in Notices : Announces(proc[p], n) => notice[n].st # "PUBLISHED"
  PROVE  NoticeInv'
<1>1. Knows(r)
  BY AtWork DEF Knows, Working, Resting
<1>2. Working(r) => ProcVetted(r, notice[r.n], past[r.n])
  BY AtWork DEF ProcVetted, OnApproval
<1>3. \A n : ~Announces(r, n)
  BY DEF Announces, Working, Resting
<1> QED
  BY <1>1, <1>2, <1>3, Walks

\* A request that has read the notice n and will do pc.
LEMMA Reads ==
  ASSUME NoticeInv, NEW p \in Requests, NEW n \in Notices,
         NEW pc \in Steps \ {"accept", "record"}, NEW via \in {"web", "mobile", "approval", "cron"},
         NEW arg \in Args, Read(p, n, pc, via, arg), UNCHANGED <<notice, event, rows, approval, past>>,
         \A r \in ProcRows : r.pc = pc /\ r.n = n /\ r.via = via /\ r.arg = arg =>
           Knows(r) /\ ProcVetted(r, notice[n], past[n])
  PROVE  NoticeInv'
<1>1. PICK r : r = [pc |-> pc, n |-> n, via |-> via, arg |-> arg, due |-> {}]
  OBVIOUS
<1>2. r \in ProcRows /\ r.pc = pc /\ r.n = n /\ r.via = via /\ r.arg = arg
  BY <1>1 DEF ProcRows
<1>3. p \in Procs /\ proc[p].pc = "idle" /\ proc' = [proc EXCEPT ![p] = r]
  BY <1>1 DEF Read, At, Procs
<1>4. spent' \in [ops : Nat, faults : Nat]
  BY <1>3, AtWork DEF Read
<1>5. \A m : ~Announces(r, m) /\ ~Announces(proc[p], m)
  BY <1>2, <1>3 DEF Announces
<1> QED
  BY <1>2, <1>3, <1>4, <1>5, Walks

LEMMA Called ==
  ASSUME NoticeInv, NEW p \in Requests, NEW n \in Notices
  PROVE  /\ UpdateNoticeDraft(p, n) => NoticeInv'
         /\ ScheduleNotice(p, n) => NoticeInv'
         /\ CancelNotice(p, n) => NoticeInv'
         /\ ArchiveNotice(p, n) => NoticeInv'
         /\ RestoreNotice(p, n) => NoticeInv'
         /\ PublishPreparedNotice(p, n) => NoticeInv'
         /\ RequestApproval(p, n) => NoticeInv'
         /\ Decide(p, n) => NoticeInv'
         /\ RetryFinalAction(p, n) => NoticeInv'
<1>1. PICK v, a, h : v = notice[n] /\ a = approval[n] /\ h = past[n]
  OBVIOUS
<1>2. v \in NoticeRows /\ RowVetted(v, a, h)
  BY <1>1 DEF NoticeInv, Typed, Vetted
<1>3. CASE UpdateNoticeDraft(p, n)
  <2>1. PICK e \in Edits : Read(p, n, "edit", "web", e) /\ UNCHANGED <<notice, event, rows, approval, past>>
    BY <1>3 DEF UpdateNoticeDraft
  <2>2. "edit" \in Steps \ {"accept", "record"} /\ e \in Args
    BY DEF Steps, Args
  <2>3. ASSUME NEW r \in ProcRows, r.pc = "edit", r.n = n, r.arg = e
        PROVE  Knows(r) /\ ProcVetted(r, notice[n], past[n])
    BY <2>1, <2>3 DEF Knows, ProcVetted, OnApproval, Read
  <2> QED
    BY <2>1, <2>2, <2>3, Reads
<1>4. CASE ScheduleNotice(p, n)
  <2>1. Read(p, n, "schedule", "web", None) /\ UNCHANGED <<notice, event, rows, approval, past>>
    BY <1>4 DEF ScheduleNotice
  <2>2. "schedule" \in Steps \ {"accept", "record"} /\ None \in Args
    BY DEF Steps, Args
  <2>3. ASSUME NEW r \in ProcRows, r.pc = "schedule", r.n = n
        PROVE  Knows(r) /\ ProcVetted(r, notice[n], past[n])
    BY <2>1, <2>3 DEF Knows, ProcVetted, OnApproval, Read
  <2> QED
    BY <2>1, <2>2, <2>3, Reads
<1>5. CASE CancelNotice(p, n)
  <2>1. Read(p, n, "cancel", "web", None) /\ UNCHANGED <<notice, event, rows, approval, past>>
    BY <1>5 DEF CancelNotice
  <2>2. "cancel" \in Steps \ {"accept", "record"} /\ None \in Args
    BY DEF Steps, Args
  <2>3. ASSUME NEW r \in ProcRows, r.pc = "cancel", r.n = n
        PROVE  Knows(r) /\ ProcVetted(r, notice[n], past[n])
    BY <2>1, <2>3 DEF Knows, ProcVetted, OnApproval, Read
  <2> QED
    BY <2>1, <2>2, <2>3, Reads
<1>6. CASE ArchiveNotice(p, n)
  <2>1. Read(p, n, "archive", "web", v.st) /\ UNCHANGED <<notice, event, rows, approval, past>>
        /\ v.st # "ARCHIVED" /\ v.st # "none"
    BY <1>1, <1>6 DEF ArchiveNotice, Read
  <2>2. "archive" \in Steps \ {"accept", "record"} /\ v.st \in Args /\ v.st \in Statuses \ {"ARCHIVED"}
    BY <1>2, <2>1 DEF Steps, Args, NoticeRows
  <2>3. ASSUME NEW r \in ProcRows, r.pc = "archive", r.n = n, r.arg = v.st
        PROVE  Knows(r) /\ ProcVetted(r, v, h)
    BY <1>2, <2>1, <2>2, <2>3 DEF Knows, ProcVetted, OnApproval, RowVetted
  <2> QED
    BY <1>1, <2>1, <2>2, <2>3, Reads
<1>7. CASE RestoreNotice(p, n)
  <2>1. Read(p, n, "restore", "web", RestoredStatus(v)) /\ UNCHANGED <<notice, event, rows, approval, past>>
        /\ v.st = "ARCHIVED"
    BY <1>1, <1>7 DEF RestoreNotice
  <2>2. PICK st : st = RestoredStatus(v)
    OBVIOUS
  <2>3. st \in Statuses \ {"ARCHIVED"} /\ (st = v.from \/ st = "DRAFT")
    BY <1>2, <2>2 DEF RestoredStatus, NoticeRows, Statuses
  <2>4. "restore" \in Steps \ {"accept", "record"} /\ st \in Args
    BY <2>3 DEF Steps, Args
  <2>5. ASSUME NEW r \in ProcRows, r.pc = "restore", r.n = n, r.arg = st
        PROVE  Knows(r) /\ ProcVetted(r, v, h)
    BY <1>2, <2>1, <2>3, <2>5 DEF Knows, ProcVetted, OnApproval, RowVetted
  <2> QED
    BY <1>1, <2>1, <2>2, <2>4, <2>5, Reads
<1>8. CASE PublishPreparedNotice(p, n)
  <2>1. Read(p, n, "claim", "web", v.st) /\ UNCHANGED <<notice, event, rows, approval, past>>
        /\ \E preview : MayPublish(v, preview)
    BY <1>1, <1>8 DEF PublishPreparedNotice
  <2>2. "claim" \in Steps \ {"accept", "record"} /\ v.st \in Args
    BY <2>1 DEF Steps, Args, MayPublish, Statuses
  <2>3. ASSUME NEW r \in ProcRows, r.pc = "claim", r.n = n, r.via = "web", r.arg = v.st
        PROVE  Knows(r) /\ ProcVetted(r, v, h)
    BY <1>2, <2>1, <2>3 DEF Knows, ProcVetted, OnApproval, RowVetted, MayPublish
  <2> QED
    BY <1>1, <2>1, <2>2, <2>3, Reads
<1>9. CASE RequestApproval(p, n)
  <2>1. PICK sched \in {"none", "future"} :
          Read(p, n, "request", "web", sched) /\ UNCHANGED <<notice, event, rows, approval, past>>
    BY <1>9 DEF RequestApproval
  <2>2. "request" \in Steps \ {"accept", "record"} /\ sched \in Args /\ sched \in Times
    BY DEF Steps, Args, Times
  <2>3. ASSUME NEW r \in ProcRows, r.pc = "request", r.n = n, r.arg = sched
        PROVE  Knows(r) /\ ProcVetted(r, notice[n], past[n])
    BY <2>1, <2>2, <2>3 DEF Knows, ProcVetted, OnApproval, Read
  <2> QED
    BY <2>1, <2>2, <2>3, Reads
<1>10. CASE Decide(p, n)
  <2>1. PICK d \in {"APPROVED", "REJECTED"} :
          Read(p, n, "decide", "approval", d) /\ UNCHANGED <<notice, event, rows, approval, past>>
    BY <1>10 DEF Decide
  <2>2. "decide" \in Steps \ {"accept", "record"} /\ d \in Args
    BY DEF Steps, Args, Statuses
  <2>3. ASSUME NEW r \in ProcRows, r.pc = "decide", r.n = n, r.arg = d
        PROVE  Knows(r) /\ ProcVetted(r, notice[n], past[n])
    BY <2>1, <2>2, <2>3 DEF Knows, ProcVetted, OnApproval, Read
  <2> QED
    BY <2>1, <2>2, <2>3, Reads
<1>11. CASE RetryFinalAction(p, n)
  <2>1. /\ Read(p, n, "apply", "approval", None) /\ UNCHANGED <<notice, event, rows, approval, past>>
        /\ a.st = "APPROVED" /\ v.st # "none"
    BY <1>1, <1>11 DEF RetryFinalAction, Read
  <2>2. "apply" \in Steps \ {"accept", "record"} /\ None \in Args
    BY DEF Steps, Args
  <2>3. ASSUME NEW r \in ProcRows, r.pc = "apply", r.n = n
        PROVE  Knows(r) /\ ProcVetted(r, v, h)
    BY <1>2, <2>1, <2>3 DEF Knows, ProcVetted, OnApproval, RowVetted
  <2> QED
    BY <1>1, <2>1, <2>2, <2>3, Reads
<1> QED
  BY <1>3, <1>4, <1>5, <1>6, <1>7, <1>8, <1>9, <1>10, <1>11

\* The steps that read a notice and write none.
LEMMA ReadForMarkKeeps == ASSUME NoticeInv, NEW p \in Procs, ReadForMark(p) PROVE NoticeInv'
<1>1. UNCHANGED <<notice, event, rows, approval, past>> /\ spent' \in [ops : Nat, faults : Nat]
  BY AtWork DEF ReadForMark
<1>2. Working(proc[p]) /\ \A n : ~Announces(proc[p], n)
  BY DEF ReadForMark, At, Working, Resting, Announces
<1>3. CASE Throw(p)
  <2>1. PICK r \in ProcRows : /\ proc' = [proc EXCEPT ![p] = r]
                              /\ ~Working(r) \/ (r.pc = "APPLY_FAILED" /\ r.n = proc[p].n)
    BY <1>3, ThrowRow
  <2> QED
    BY <1>1, <1>2, <2>1, Leaves
<1>4. CASE At(p, "pending") /\ Go(p, "markPending")
  <2>1. PICK r \in ProcRows : proc' = [proc EXCEPT ![p] = r] /\ r.pc = "markPending" /\ r.n = proc[p].n
    BY <1>4, GoRow DEF Steps
  <2>2. Knows(r) /\ ProcVetted(r, notice[r.n], past[r.n]) /\ \A n : ~Announces(r, n)
    BY <1>2, <2>1, AtWork DEF Knows, ProcVetted, OnApproval, Announces
  <2> QED
    BY <1>1, <1>2, <2>1, <2>2, Walks
<1>5. CASE At(p, "approve") /\ Go(p, "markApproved")
  <2>1. PICK r \in ProcRows : /\ proc' = [proc EXCEPT ![p] = r]
                              /\ r.pc = "markApproved" /\ r.n = proc[p].n /\ r.arg = proc[p].arg
    BY <1>5, GoRow DEF Steps
  <2>2. Knows(r) /\ ProcVetted(r, notice[r.n], past[r.n]) /\ \A n : ~Announces(r, n)
    BY <1>2, <1>5, <2>1, AtWork DEF Knows, ProcVetted, OnApproval, Announces, At
  <2> QED
    BY <1>1, <1>2, <2>1, <2>2, Walks
<1> QED
  BY <1>3, <1>4, <1>5 DEF ReadForMark

LEMMA PublishNoticeKeeps == ASSUME NoticeInv, NEW p \in Procs, PublishNotice(p) PROVE NoticeInv'
<1>1. UNCHANGED <<notice, event, rows, approval, past>> /\ spent' \in [ops : Nat, faults : Nat]
  BY AtWork DEF PublishNotice
<1>2. PICK s, n, v : s = proc[p] /\ n = s.n /\ v = notice[n]
  OBVIOUS
<1>3. /\ Working(s) /\ s.pc = "send" /\ s \in ProcRows /\ Knows(s) /\ n \in Notices
      /\ ProcVetted(s, v, past[n]) /\ \A m : ~Announces(s, m)
  BY <1>2, AtWork DEF PublishNotice, At, Working, Resting, Announces
<1>4. CASE Throw(p)
  <2>1. PICK r \in ProcRows : /\ proc' = [proc EXCEPT ![p] = r]
                              /\ ~Working(r) \/ (r.pc = "APPLY_FAILED" /\ r.n = proc[p].n)
    BY <1>4, ThrowRow
  <2> QED
    BY <1>1, <1>2, <1>3, <2>1, Leaves
<1>5. CASE ~Throw(p)
  <2>1. PICK arg \in {"published", "unpublished"}, pc \in {"defer", "accept"} :
          /\ v.st \in {"DRAFT", "APPROVED", "SCHEDULED", "PUBLISHED"}
          /\ proc' = [proc EXCEPT ![p].arg = arg, ![p].pc = pc]
    BY <1>2, <1>5 DEF PublishNotice
  <2>2. PICK r : r = [s EXCEPT !.arg = arg, !.pc = pc]
    OBVIOUS
  <2>3. arg \in Args /\ pc \in Steps
    BY DEF Args, Steps
  <2>4. r \in ProcRows /\ r.pc = pc /\ r.n = n
    BY <1>2, <1>3, <2>2, <2>3 DEF ProcRows
  <2>5. proc' = [proc EXCEPT ![p] = r]
    BY <1>2, <2>1, <2>2, Zenon
  <2>6. Knows(r) /\ ProcVetted(r, v, past[n])
    BY <1>3, <2>4 DEF Knows, ProcVetted, OnApproval
  <2>7. ~Withdrawal(v)
    BY <2>1 DEF Withdrawal
  <2>8. \A m \in Notices : Announces(r, m) => ~Withdrawal(notice[m])
    BY <1>2, <2>4, <2>7 DEF Announces
  <2> QED
    BY <1>1, <1>2, <1>3, <2>4, <2>5, <2>6, <2>8, Walks
<1> QED
  BY <1>4, <1>5

LEMMA ApplyFinalActionKeeps == ASSUME NoticeInv, NEW p \in Procs, ApplyFinalAction(p) PROVE NoticeInv'
<1>1. UNCHANGED <<notice, event, rows, approval, past>> /\ spent' \in [ops : Nat, faults : Nat]
  BY AtWork DEF ApplyFinalAction
<1>2. PICK s, n, a : s = proc[p] /\ n = s.n /\ a = approval[n]
  OBVIOUS
<1>3. /\ Working(s) /\ s.pc = "apply" /\ s \in ProcRows /\ Knows(s) /\ n \in Notices
      /\ ProcVetted(s, notice[n], past[n]) /\ a \in ApprovalRows /\ \A m : ~Announces(s, m)
  BY <1>2, AtWork DEF ApplyFinalAction, At, Working, Resting, Announces
<1>4. CASE End(p)
  <2>1. PICK r \in ProcRows : proc' = [proc EXCEPT ![p] = r] /\ ~Working(r)
    BY <1>4, EndRow
  <2> QED
    BY <1>1, <1>2, <1>3, <2>1, Leaves
<1>5. CASE proc' = [proc EXCEPT ![p].pc = "approve", ![p].arg = a.sched]
  <2>1. PICK pc, arg : pc = "approve" /\ arg = a.sched
    OBVIOUS
  <2>2. pc \in Steps /\ arg \in Args /\ arg \in Times
    BY <1>3, <2>1 DEF ApprovalRows, Args, Steps
  <2>3. PICK r : r = [s EXCEPT !.pc = pc, !.arg = arg]
    OBVIOUS
  <2>4. r \in ProcRows /\ r.pc = pc /\ r.n = n /\ r.arg = arg
    BY <1>2, <1>3, <2>2, <2>3 DEF ProcRows
  <2>5. proc' = [proc EXCEPT ![p] = r]
    BY <1>2, <1>5, <2>1, <2>3, Zenon
  <2>6. Knows(r) /\ ProcVetted(r, notice[n], past[n]) /\ \A m : ~Announces(r, m)
    BY <1>3, <2>1, <2>2, <2>4 DEF Knows, ProcVetted, OnApproval, Announces
  <2> QED
    BY <1>1, <1>2, <1>3, <2>4, <2>5, <2>6, Walks
<1> QED
  BY <1>2, <1>4, <1>5 DEF ApplyFinalAction

LEMMA ClaimLost ==
  ASSUME NoticeInv, NEW p \in Procs, Claim(p), ~MayClaim(notice[proc[p].n], proc[p].arg)
  PROVE  NoticeInv'
<1>1. /\ UNCHANGED <<notice, event, rows, approval, past>> /\ spent' \in [ops : Nat, faults : Nat]
      /\ Done(p) /\ \A n : ~Announces(proc[p], n)
  BY AtWork DEF Claim, At, Announces
<1>2. PICK r \in ProcRows : proc' = [proc EXCEPT ![p] = r] /\ ~Working(r)
  BY <1>1, DoneRow
<1> QED
  BY <1>1, <1>2, Leaves

LEMMA DueKeeps == ASSUME NoticeInv, NEW p \in Procs, ProcessDueNoticeLifecycle(p) PROVE NoticeInv'
<1>1. /\ UNCHANGED <<notice, event, rows, approval, past>> /\ spent' \in [ops : Nat, faults : Nat]
      /\ \A n : ~Announces(proc[p], n)
  BY AtWork DEF ProcessDueNoticeLifecycle, At, Announces
<1>2. PICK r \in ProcRows : ~Working(r) /\ r = [Idle EXCEPT !.pc = "actor", !.via = "cron"]
  BY ActorRow
<1>3. proc' = [proc EXCEPT ![p] = r]
  BY <1>2 DEF ProcessDueNoticeLifecycle
<1> QED
  BY <1>1, <1>2, <1>3, Leaves

LEMMA ActorKeeps == ASSUME NoticeInv, NEW p \in Procs, ResolveSystemActor(p) PROVE NoticeInv'
<1>1. /\ UNCHANGED <<notice, event, rows, approval, past>> /\ spent' \in [ops : Nat, faults : Nat]
      /\ \A n : ~Announces(proc[p], n)
  BY AtWork DEF ResolveSystemActor, At, Announces
<1>2. PICK due : due = {n \in Notices : Due(n)}
  OBVIOUS
<1>3. PICK r \in ProcRows : ~Working(r) /\ r = [Idle EXCEPT !.pc = "loop", !.via = "cron", !.due = due]
  BY <1>2, LoopRow
<1>4. proc' = [proc EXCEPT ![p] = r] \/ proc' = [proc EXCEPT ![p] = Idle]
  BY <1>2, <1>3 DEF ResolveSystemActor, End
<1> QED
  BY <1>1, <1>3, <1>4, IdleRow, Leaves

LEMMA ScheduledKeeps == ASSUME NoticeInv, NEW p \in Procs, ProcessScheduledNotices(p) PROVE NoticeInv'
<1>1. /\ UNCHANGED <<notice, event, rows, approval, past>> /\ spent' \in [ops : Nat, faults : Nat]
      /\ \A n : ~Announces(proc[p], n)
  BY AtWork DEF ProcessScheduledNotices, At, Announces
<1>2. PICK s : s = proc[p] /\ s \in ProcRows /\ s.pc = "loop" /\ s.via = "cron"
  BY AtWork DEF ProcessScheduledNotices, At, Knows, Working, Resting
<1>3. PICK n \in s.due, preview \in Previews : proc' = [proc EXCEPT ![p] =
                           IF notice[n].st = "PUBLISHED" THEN [@ EXCEPT !.due = proc[p].due \ {n}]
                           ELSE IF MayPublish(notice[n], preview) THEN [@ EXCEPT !.pc = "claim", !.n = n, !.arg = notice[n].st]
                           ELSE Idle]
  BY <1>2 DEF ProcessScheduledNotices
<1>4. n \in Notices
  BY <1>2 DEF ProcRows
<1>5. CASE notice[n].st = "PUBLISHED"
  <2>1. PICK due, r : due = s.due \ {n} /\ r = [s EXCEPT !.due = due]
    OBVIOUS
  <2>2. r \in ProcRows /\ ~Working(r)
    BY <1>2, <2>1 DEF ProcRows, Working, Resting
  <2>3. proc' = [proc EXCEPT ![p] = r]
    <3>1. proc' = [proc EXCEPT ![p] = [proc[p] EXCEPT !.due = proc[p].due \ {n}]]
      BY <1>3, <1>5
    <3> QED
      BY <1>2, <2>1, <3>1, Zenon
  <2> QED
    BY <1>1, <2>2, <2>3, Leaves
<1>6. CASE notice[n].st # "PUBLISHED" /\ MayPublish(notice[n], preview)
  <2>1. PICK v, h : v = notice[n] /\ h = past[n]
    OBVIOUS
  <2>2. v \in NoticeRows /\ RowVetted(v, approval[n], h) /\ MayPublish(v, preview)
    BY <1>4, <1>6, <2>1 DEF NoticeInv, Typed, Vetted
  <2>3. PICK pc, arg : pc = "claim" /\ arg = v.st
    OBVIOUS
  <2>4. pc \in Steps /\ arg \in Args
    BY <2>2, <2>3 DEF Steps, Args, MayPublish, Statuses
  <2>5. PICK r : r = [s EXCEPT !.pc = pc, !.n = n, !.arg = arg]
    OBVIOUS
  <2>6. r \in ProcRows /\ r.pc = pc /\ r.n = n /\ r.arg = arg /\ r.via = "cron"
    BY <1>2, <1>4, <2>4, <2>5 DEF ProcRows
  <2>7. proc' = [proc EXCEPT ![p] = r]
    BY <1>2, <1>3, <1>6, <2>1, <2>3, <2>5
  <2>8. Knows(r) /\ ProcVetted(r, v, h) /\ \A m : ~Announces(r, m)
    BY <1>4, <2>2, <2>3, <2>6 DEF Knows, ProcVetted, OnApproval, RowVetted, MayPublish, Announces
  <2> QED
    BY <1>1, <2>1, <2>6, <2>7, <2>8, Walks
<1>7. CASE notice[n].st # "PUBLISHED" /\ ~MayPublish(notice[n], preview)
  <2>1. proc' = [proc EXCEPT ![p] = Idle]
    BY <1>3, <1>7
  <2> QED
    BY <1>1, <2>1, IdleRow, Leaves
<1> QED
  BY <1>5, <1>6, <1>7

LEMMA AcceptKeeps == ASSUME NoticeInv, NEW p \in Procs, Accept(p) PROVE NoticeInv'
<1>1. /\ UNCHANGED <<notice, rows, approval, past>> /\ spent' \in [ops : Nat, faults : Nat]
      /\ event \in [Notices -> {"none", "ACCEPTED", "DISPATCHED", "FAILED"}]
      /\ approval' \in [Notices -> ApprovalRows]
  BY AtWork DEF Accept, NoticeInv, Typed
<1>2. PICK s, n : s = proc[p] /\ n = s.n
  OBVIOUS
<1>3. /\ Working(s) /\ s.pc = "accept" /\ s \in ProcRows /\ Knows(s) /\ n \in Notices
      /\ ProcVetted(s, notice[n], past[n])
  BY <1>2, AtWork DEF Accept, At, Working, Resting
<1>4. PastKept
  BY <1>1, PastUnmoved
<1>5. \A m \in Notices : approval'[m].st = "APPROVED" => past'[m].approved
  BY <1>1 DEF NoticeInv, Vetted, RowVetted
<1>6. CASE Go(p, "record") /\ event' = [event EXCEPT ![n] = IF @ = "none" THEN "ACCEPTED" ELSE @]
  <2>1. PICK r \in ProcRows : /\ proc' = [proc EXCEPT ![p] = r]
                              /\ r.pc = "record" /\ r.n = n /\ r.via = s.via
    BY <1>2, <1>6, GoRow DEF Steps
  <2>2. event' \in [Notices -> {"none", "ACCEPTED", "DISPATCHED", "FAILED"}]
    BY <1>1, <1>3, <1>6
  <2>3. Knows(r) /\ ProcVetted(r, notice[n], past[n])
    BY <1>3, <2>1 DEF Knows, ProcVetted, OnApproval
  <2>4. \A m : Announces(r, m) <=> Announces(s, m)
    BY <1>2, <1>3, <2>1 DEF Announces
  <2>5. Working(r) => ProcVetted(r, notice[r.n], past'[r.n])
    BY <1>1, <2>1, <2>3
  <2> QED
    BY <1>1, <1>2, <1>4, <1>5, <2>1, <2>2, <2>3, <2>4, <2>5, Moves
<1>7. CASE notice[n].st # "PUBLISHED" /\ ListenerFails(p) /\ UNCHANGED event
  <2>1. PICK r \in ProcRows :
          /\ proc' = [proc EXCEPT ![p] = r]
          /\ \/ ~Working(r)
             \/ r.pc = "APPLY_FAILED" /\ r.n = n
             \/ r.pc = "write" /\ r.n = n /\ s.via \in {"mobile", "approval"}
    BY <1>2, <1>7, HeardRow
  <2>2. Knows(r) /\ (Working(r) => ProcVetted(r, notice[r.n], past[r.n])) /\ \A m : ~Announces(r, m)
    BY <1>3, <2>1 DEF Knows, ProcVetted, OnApproval, Announces, Working, Resting
  <2>3. \A m \in Notices : Announces(s, m) => notice[m].st # "PUBLISHED"
    BY <1>2, <1>7 DEF Announces
  <2> QED
    BY <1>1, <1>2, <1>7, <2>1, <2>2, <2>3, Walks
<1> QED
  BY <1>2, <1>6, <1>7 DEF Accept

\* The steps that write the request for an approval.
LEMMA CreateRequestKeeps == ASSUME NoticeInv, NEW p \in Procs, CreateRequest(p) PROVE NoticeInv'
<1>1. /\ UNCHANGED <<notice, event, rows, past>> /\ spent' \in [ops : Nat, faults : Nat]
      /\ event' \in [Notices -> {"none", "ACCEPTED", "DISPATCHED", "FAILED"}]
      /\ approval \in [Notices -> ApprovalRows] /\ Go(p, "pending")
  BY AtWork DEF CreateRequest, NoticeInv, Typed
<1>2. PICK s, n : s = proc[p] /\ n = s.n
  OBVIOUS
<1>3. /\ Working(s) /\ s.pc = "request" /\ s \in ProcRows /\ Knows(s) /\ n \in Notices
      /\ ProcVetted(s, notice[n], past[n]) /\ \A m : ~Announces(s, m)
  BY <1>2, AtWork DEF CreateRequest, At, Working, Resting, Announces
<1>4. PastKept
  BY <1>1, PastUnmoved
<1>5. approval' \in [Notices -> ApprovalRows] /\ \A m \in Notices : approval'[m].st \in {approval[m].st, "PENDING"}
  <2>1. CASE UNCHANGED approval
    BY <1>1, <2>1
  <2>2. CASE ~UNCHANGED approval
    <3>1. \E k, x, a : /\ k = proc[p].n /\ x \in BOOLEAN /\ (x <=> proc[p].via = "mobile")
                       /\ a = [NoApproval EXCEPT !.st = "PENDING", !.sched = proc[p].arg, !.mobile = x]
                       /\ approval' = [approval EXCEPT ![k] = a]
      <4>1. approval' = [approval EXCEPT ![proc[p].n] = [NoApproval EXCEPT
                           !.st = "PENDING", !.sched = proc[p].arg, !.mobile = (proc[p].via = "mobile")]]
        BY <2>2, Zenon DEF CreateRequest
      <4> QED
        BY <4>1, Zenon
    <3>2. PICK x, a : /\ x \in BOOLEAN /\ a = [NoApproval EXCEPT !.st = "PENDING", !.sched = s.arg, !.mobile = x]
                      /\ approval' = [approval EXCEPT ![n] = a]
      BY <1>2, <3>1, Zenon
    <3>3. s.arg \in Times
      BY <1>3 DEF Knows
    <3>4. a = [st |-> "PENDING", step |-> "PENDING", sched |-> s.arg, mobile |-> x]
      BY <3>2 DEF NoApproval
    <3>5. x \in BOOLEAN /\ a.st = "PENDING"
      BY <3>2, <3>4
    <3>6. a \in ApprovalRows
      BY ONLY <3>3, <3>4, <3>5 DEF ApprovalRows
    <3> QED
      BY <1>1, <1>3, <3>2, <3>5, <3>6
  <2> QED
    BY <2>1, <2>2
<1>6. \A m \in Notices : approval'[m].st = "APPROVED" => past'[m].approved
  BY <1>1, <1>5 DEF NoticeInv, Vetted, RowVetted
<1>7. PICK r \in ProcRows : proc' = [proc EXCEPT ![p] = r] /\ r.pc = "pending" /\ r.n = n
  BY <1>1, <1>2, GoRow DEF Steps
<1>8. Knows(r) /\ ProcVetted(r, notice[n], past[n]) /\ \A m : ~Announces(r, m)
  BY <1>3, <1>7 DEF Knows, ProcVetted, OnApproval, Announces
<1>9. Working(r) => ProcVetted(r, notice[r.n], past'[r.n])
  BY <1>1, <1>7, <1>8
<1> QED
  BY <1>1, <1>2, <1>3, <1>4, <1>5, <1>6, <1>7, <1>8, <1>9, Moves

LEMMA CommitDecisionKeeps == ASSUME NoticeInv, NEW p \in Procs, CommitDecision(p) PROVE NoticeInv'
<1>1. /\ UNCHANGED <<notice, event, rows>> /\ spent' \in [ops : Nat, faults : Nat]
      /\ event' \in [Notices -> {"none", "ACCEPTED", "DISPATCHED", "FAILED"}]
      /\ approval \in [Notices -> ApprovalRows] /\ past \in [Notices -> PastRows]
  BY AtWork DEF CommitDecision, NoticeInv, Typed
<1>2. PICK s, n, d : s = proc[p] /\ n = s.n /\ d = s.arg
  OBVIOUS
<1>3. /\ Working(s) /\ s.pc = "decide" /\ s \in ProcRows /\ Knows(s) /\ n \in Notices
      /\ ProcVetted(s, notice[n], past[n]) /\ (\A m : ~Announces(s, m)) /\ d \in {"APPROVED", "REJECTED"}
  BY <1>2, AtWork DEF CommitDecision, At, Working, Resting, Announces, Knows
<1>4. PICK a : a = [approval[n] EXCEPT !.step = d, !.st = d]
  OBVIOUS
<1>5. a \in ApprovalRows /\ a.st = d
  BY <1>1, <1>3, <1>4 DEF ApprovalRows
<1>6. approval' = [approval EXCEPT ![n] = a]
  BY <1>2, <1>4, Zenon DEF CommitDecision
<1>7. approval' \in [Notices -> ApprovalRows] /\ approval'[n] = a /\ \A m \in Notices : m # n => approval'[m] = approval[m]
  BY <1>1, <1>3, <1>5, <1>6
<1>8. \E k, x : k = proc[p].n /\ x \in BOOLEAN /\ (x <=> past[k].approved \/ proc[p].arg = "APPROVED")
                /\ past' = [past EXCEPT ![k].approved = x]
  BY Zenon DEF CommitDecision
<1>9. PICK x : /\ x \in BOOLEAN /\ (x <=> past[n].approved \/ d = "APPROVED")
               /\ past' = [past EXCEPT ![n].approved = x]
  BY <1>2, <1>8, Zenon
<1>10. PICK h, g : h = past[n] /\ h \in PastRows /\ g = [h EXCEPT !.approved = x]
  BY <1>1, <1>3
<1>11. g \in PastRows /\ g.approved = x
  BY <1>9, <1>10 DEF PastRows
<1>12. /\ g.claims = h.claims /\ g.reopened = h.reopened /\ g.lost = h.lost /\ g.raced = h.raced
       /\ g.misfiled = h.misfiled /\ g.raised = h.raised
  BY <1>10 DEF PastRows
<1>13. past' = [past EXCEPT ![n] = g]
  BY <1>9, <1>10, Zenon
<1>14. past' \in [Notices -> PastRows] /\ past'[n] = g /\ \A m \in Notices : m # n => past'[m] = past[m]
  BY <1>1, <1>3, <1>11, <1>13
<1>15. past[n].approved => past'[n].approved
  BY <1>9, <1>11, <1>14
<1>16. PastKept
  BY <1>10, <1>12, <1>14, <1>15 DEF PastKept
<1>17. \A m \in Notices : approval'[m].st = "APPROVED" => past'[m].approved
  <2> SUFFICES ASSUME NEW m \in Notices, approval'[m].st = "APPROVED" PROVE past'[m].approved
    OBVIOUS
  <2>1. CASE m = n
    BY <1>5, <1>7, <1>9, <1>11, <1>14, <2>1
  <2>2. CASE m # n
    BY <1>7, <1>14, <2>2 DEF NoticeInv, Vetted, RowVetted
  <2> QED
    BY <2>1, <2>2
<1>18. PICK r \in ProcRows :
         /\ proc' = [proc EXCEPT ![p] = r]
         /\ ~Working(r) \/ (r.pc = "apply" /\ r.n = n /\ d = "APPROVED")
  <2>1. CASE d = "APPROVED"
    BY <1>2, <2>1, GoRow DEF CommitDecision, Steps
  <2>2. CASE d # "APPROVED"
    BY <1>2, <2>2, EndRow DEF CommitDecision
  <2> QED
    BY <2>1, <2>2
<1>19. Knows(r) /\ \A m : ~Announces(r, m)
  BY <1>3, <1>18 DEF Knows, Announces, Working, Resting
<1>20. Working(r) => ProcVetted(r, notice[r.n], past'[r.n])
  BY <1>3, <1>9, <1>11, <1>14, <1>18 DEF ProcVetted
<1> QED
  BY <1>1, <1>2, <1>3, <1>7, <1>16, <1>17, <1>18, <1>19, <1>20, Moves

LEMMA EndFinalActionKeeps == ASSUME NoticeInv, NEW p \in Procs, EndFinalAction(p) PROVE NoticeInv'
<1>1. /\ UNCHANGED <<notice, event, rows, past>> /\ spent' \in [ops : Nat, faults : Nat] /\ End(p)
      /\ event' \in [Notices -> {"none", "ACCEPTED", "DISPATCHED", "FAILED"}]
      /\ approval \in [Notices -> ApprovalRows]
  BY AtWork DEF EndFinalAction, NoticeInv, Typed
<1>2. PICK n : n = proc[p].n
  OBVIOUS
<1>3. PICK st \in {"APPLIED", "APPLY_FAILED"} : At(p, st) /\ approval' = [approval EXCEPT ![n].st = st]
  BY <1>2 DEF EndFinalAction
<1>4. n \in Notices /\ \A m : ~Announces(proc[p], m)
  BY <1>2, <1>3, AtWork DEF At, Working, Resting, Announces
<1>5. PICK a : a = [approval[n] EXCEPT !.st = st]
  OBVIOUS
<1>6. a \in ApprovalRows /\ a.st = st
  BY <1>1, <1>4, <1>5 DEF ApprovalRows
<1>7. approval' = [approval EXCEPT ![n] = a]
  BY <1>3, <1>5, Zenon
<1>8. approval' \in [Notices -> ApprovalRows] /\ \A m \in Notices : approval'[m].st \in {approval[m].st, st}
  BY <1>1, <1>4, <1>6, <1>7
<1>9. PastKept
  BY <1>1, PastUnmoved
<1>10. \A m \in Notices : approval'[m].st = "APPROVED" => past'[m].approved
  BY <1>1, <1>8 DEF NoticeInv, Vetted, RowVetted
<1>11. PICK r \in ProcRows : proc' = [proc EXCEPT ![p] = r] /\ ~Working(r)
  BY <1>1, EndRow
<1>12. Knows(r) /\ \A m : ~Announces(r, m)
  BY <1>11 DEF Knows, Announces, Working, Resting
<1> QED
  BY <1>1, <1>4, <1>8, <1>9, <1>10, <1>11, <1>12, Moves

\* A write of w over v: h becomes g.
Over(p, n, v, w, h, g) ==
  /\ n = proc[p].n /\ n \in Notices /\ v = notice[n] /\ v \in NoticeRows /\ w \in NoticeRows
  /\ h = past[n] /\ g = past'[n]
  /\ RowVetted(v, approval[n], h) /\ ProcVetted(proc[p], v, h) /\ Knows(proc[p])
  /\ g.approved = h.approved /\ (h.raced => g.raced) /\ (h.misfiled => g.misfiled)
  /\ (h.raised => g.raised) /\ (Misfiles(p) => g.misfiled)
  /\ (v.prio = "NORMAL" /\ w.prio # "NORMAL" /\ ~g.raised => v.st = "DRAFT")
  /\ (Withdrawal(v) /\ ~h.raced /\ ~h.misfiled => rows[n] # "queued")

LEMMA Overs ==
  ASSUME NoticeInv, NEW p \in Procs, Working(proc[p]), NEW n, n = proc[p].n, NEW w \in NoticeRows,
         Put(p, w), NEW v, v = notice[n], NEW h, h = past[n], NEW g, g = past'[n]
  PROVE  Over(p, n, v, w, h, g)
<1>1. /\ n \in Notices /\ v \in NoticeRows /\ Knows(proc[p])
      /\ RowVetted(v, approval[n], h) /\ ProcVetted(proc[p], v, h)
  BY AtWork
<1>2. /\ g.approved = h.approved /\ (h.raced => g.raced) /\ (h.misfiled => g.misfiled)
      /\ (h.raised => g.raised) /\ (Misfiles(p) => g.misfiled)
      /\ (v.prio = "NORMAL" /\ w.prio # "NORMAL" /\ ~g.raised => v.st = "DRAFT")
  BY <1>1, PutFacts
<1>3. Withdrawal(v) /\ ~h.raced /\ ~h.misfiled => rows[n] # "queued"
  BY <1>1 DEF NoticeInv, Silent
<1> QED
  BY <1>1, <1>2, <1>3 DEF Over

\* ... and it keeps what is said of v, if w is no worse.
LEMMA OverVetted ==
  ASSUME NEW p, NEW n, NEW v, NEW w, NEW h, NEW g, Over(p, n, v, w, h, g), w.st # "none",
         w.st \notin {"APPROVED", "PUBLISHED", "ARCHIVED"}, w.from = v.from
  PROVE  RowVetted(w, approval[n], g)
  BY DEF Over, RowVetted

LEMMA WriteKeeps == ASSUME NoticeInv, NEW p \in Procs, Write(p) PROVE NoticeInv'
<1>1. PICK s, n, v, h, g, arg : s = proc[p] /\ n = s.n /\ v = notice[n] /\ h = past[n] /\ g = past'[n] /\ arg = s.arg
  OBVIOUS
<1>2. /\ s.pc \in {"edit", "schedule", "cancel", "archive", "restore"} /\ Working(s)
      /\ s.pc \notin {"accept", "record"}
  BY <1>1 DEF Write, At, Working, Resting
<1>3. /\ n \in Notices /\ v \in NoticeRows /\ Knows(s) /\ rows \in [Notices -> {"none", "queued", "cancelled"}]
      /\ ProcVetted(s, v, h) /\ v.st # "none"
  BY <1>1, <1>2, AtWork DEF NoticeInv, Typed, ProcVetted
<1>4. /\ UNCHANGED <<event, approval, spent>> /\ End(p)
      /\ (s.pc # "cancel" => rows' = rows)
      /\ (s.pc = "cancel" => rows' = [rows EXCEPT ![n] = Withdrawn(@)])
  BY <1>1 DEF Write, At
<1>5. PICK r \in ProcRows : proc' = [proc EXCEPT ![p] = r] /\ ~Working(r)
  BY <1>4, EndRow
<1>6. Knows(r) /\ r.pc \notin {"accept", "record"}
  BY <1>5 DEF Knows, Working, Resting
<1>7. /\ rows' \in [Notices -> {"none", "queued", "cancelled"}]
      /\ \A m \in Notices : m # n => rows'[m] = rows[m]
      /\ rows'[n] = rows[n] \/ (rows'[n] = "cancelled" /\ rows[n] = "queued")
      /\ s.pc = "cancel" => rows'[n] # "queued"
  <2>1. CASE s.pc # "cancel"
    BY <1>3, <1>4, <2>1
  <2>2. CASE s.pc = "cancel"
    BY <1>3, <1>4, <2>2 DEF Withdrawn
  <2> QED
    BY <2>1, <2>2
\* It is enough to look at the row that is written.
<1>8. ASSUME NEW w \in NoticeRows, Put(p, w), w.st # "none", RowVetted(w, approval[n], g),
             Withdrawal(w) /\ ~g.misfiled /\ ~g.raced => rows'[n] # "queued"
      PROVE  NoticeInv'
  <2>1. n = proc[p].n /\ proc[p].pc \notin {"accept", "record"}
    BY <1>1, <1>2
  <2>2. RowVetted(w, approval[n], past'[n])
    BY <1>1, <1>8
  <2>3. Withdrawal(w) /\ ~past'[n].misfiled /\ ~past'[n].raced => rows'[n] # "queued"
    BY <1>1, <1>8
  <2>4. (Working(r) => r.n = n) /\ (Working(r) => ProcVetted(r, w, past'[n]))
    BY <1>5
  <2>5. UNCHANGED <<event, approval, spent>>
    BY <1>4
  <2> QED
    BY <1>3, <1>5, <1>6, <1>7, <1>8, <2>1, <2>2, <2>3, <2>4, <2>5, Writes, ZenonT(60)
<1>9. ASSUME NEW w \in NoticeRows, Put(p, w) PROVE Over(p, n, v, w, h, g)
  BY <1>1, <1>2, <1>9, Overs
<1>10. CASE At(p, "edit") /\ Put(p, Edited(v, arg))
  <2>1. PICK w : w = Edited(v, arg)
    OBVIOUS
  <2>2. arg \in Edits
    BY <1>1, <1>3, <1>10 DEF Knows, At
  <2>3. /\ w \in NoticeRows /\ w.st = v.st /\ w.from = v.from
        /\ w.prio = v.prio \/ w.prio \in Priorities
    BY <1>3, <2>1, <2>2 DEF Edited, NoticeRows, Edits, Times, Priorities
  <2>4. Over(p, n, v, w, h, g)
    BY <1>9, <1>10, <2>1, <2>3
  <2>5. RowVetted(w, approval[n], g)
    BY <1>3, <2>3, <2>4 DEF Over, RowVetted
  <2>6. Withdrawal(w) /\ ~g.misfiled /\ ~g.raced => rows'[n] # "queued"
    BY <1>7, <2>3, <2>4 DEF Over, Withdrawal
  <2> QED
    BY <1>3, <1>8, <1>10, <2>1, <2>3, <2>5, <2>6
<1>11. CASE At(p, "schedule") /\ Put(p, Scheduled(v))
  <2>1. PICK w : w = Scheduled(v)
    OBVIOUS
  <2>2. w \in NoticeRows /\ w.st = "SCHEDULED" /\ w.from = v.from
    BY <1>3, <2>1 DEF Scheduled, NoticeRows, Statuses, Times
  <2>3. RowVetted(w, approval[n], g)
    BY <1>9, <1>11, <2>1, <2>2, OverVetted
  <2>4. ~Withdrawal(w)
    BY <2>2 DEF Withdrawal
  <2> QED
    BY <1>8, <1>11, <2>1, <2>2, <2>3, <2>4
<1>12. CASE At(p, "cancel") /\ Put(p, Cancelled(v))
  <2>1. PICK w : w = Cancelled(v)
    OBVIOUS
  <2>2. w \in NoticeRows /\ w.st = "CANCELLED" /\ w.from = v.from
    BY <1>3, <2>1 DEF Cancelled, NoticeRows, Statuses, Times
  <2>3. RowVetted(w, approval[n], g)
    BY <1>9, <1>12, <2>1, <2>2, OverVetted
  <2>4. rows'[n] # "queued"
    BY <1>1, <1>7, <1>12 DEF At
  <2> QED
    BY <1>8, <1>12, <2>1, <2>2, <2>3, <2>4
<1>13. CASE At(p, "archive") /\ Put(p, Archived(v, arg))
  <2>1. PICK w : w = Archived(v, arg)
    OBVIOUS
  <2>2. arg \in Statuses \ {"ARCHIVED"} /\ s.pc = "archive"
    BY <1>1, <1>3, <1>13 DEF Knows, At
  <2>3. w \in NoticeRows /\ w.st = "ARCHIVED" /\ w.from = arg /\ w.prio = v.prio
    BY <1>3, <2>1, <2>2 DEF Archived, NoticeRows, Statuses
  <2>4. Over(p, n, v, w, h, g)
    BY <1>9, <1>13, <2>1, <2>3
  <2>5. RowVetted(w, approval[n], g)
    BY <1>1, <1>3, <2>2, <2>3, <2>4 DEF Over, RowVetted, ProcVetted, OnApproval
  <2>6. Withdrawal(w) /\ ~g.misfiled /\ ~g.raced => rows'[n] # "queued"
    <3> SUFFICES ASSUME Withdrawal(w), ~g.misfiled, ~g.raced PROVE rows'[n] # "queued"
      OBVIOUS
    <3>1. arg = "CANCELLED"
      BY <2>3 DEF Withdrawal
    <3>2. ~Misfiles(p)
      BY <2>4 DEF Over
    <3>3. v.st = "CANCELLED"
      BY <1>1, <1>13, <3>1, <3>2 DEF Misfiles
    <3> QED
      BY <1>7, <2>4, <3>3 DEF Over, Withdrawal
  <2> QED
    BY <1>8, <1>13, <2>1, <2>3, <2>5, <2>6
<1>14. CASE At(p, "restore") /\ Put(p, Restored(v, arg))
  <2>1. PICK w : w = Restored(v, arg)
    OBVIOUS
  <2>2. arg \in Statuses \ {"ARCHIVED"} /\ s.pc = "restore"
    BY <1>1, <1>3, <1>14 DEF Knows, At
  <2>3. w \in NoticeRows /\ w.st = arg /\ w.from = "none" /\ w.prio = v.prio
    BY <1>3, <2>1, <2>2 DEF Restored, NoticeRows, Statuses
  <2>4. Over(p, n, v, w, h, g)
    BY <1>9, <1>14, <2>1, <2>3
  <2>5. RowVetted(w, approval[n], g) /\ w.st # "none"
    BY <1>1, <1>3, <2>2, <2>3, <2>4 DEF Over, RowVetted, ProcVetted, OnApproval, Statuses
  <2>6. Withdrawal(w) /\ ~g.misfiled /\ ~g.raced => rows'[n] # "queued"
    <3> SUFFICES ASSUME Withdrawal(w), ~g.misfiled, ~g.raced PROVE rows'[n] # "queued"
      OBVIOUS
    <3>1. arg = "CANCELLED"
      BY <2>2, <2>3 DEF Withdrawal
    <3>2. ~Misfiles(p)
      BY <2>4 DEF Over
    <3>3. v.st = "ARCHIVED" /\ RestoredStatus(v) = "CANCELLED"
      BY <1>1, <1>14, <3>1, <3>2 DEF Misfiles
    <3>4. v.from = "CANCELLED"
      BY <3>3 DEF RestoredStatus
    <3> QED
      BY <1>7, <2>4, <3>3, <3>4 DEF Over, Withdrawal
  <2> QED
    BY <1>8, <1>14, <2>1, <2>3, <2>5, <2>6
<1> QED
  BY <1>1, <1>10, <1>11, <1>12, <1>13, <1>14 DEF Write

\* The writes that go on: r is what the handler then is.
LEMMA Rewrites ==
  ASSUME NoticeInv, NEW p \in Procs, NEW n, n = proc[p].n, Working(proc[p]),
         proc[p].pc \notin {"accept", "record"}, NEW w \in NoticeRows, Put(p, w),
         NEW r \in ProcRows, proc' = [proc EXCEPT ![p] = r], Knows(r), Working(r) => r.n = n,
         r.pc \notin {"accept", "record"}, UNCHANGED <<event, rows, approval, spent>>,
         w.st # "none", RowVetted(w, approval[n], past'[n]),
         Working(r) => ProcVetted(r, w, past'[n]), ~Withdrawal(w)
  PROVE  NoticeInv'
<1>1. rows' \in [Notices -> {"none", "queued", "cancelled"}] /\ \A m \in Notices : rows'[m] = rows[m]
  BY DEF NoticeInv, Typed
<1>2. n \in Notices
  BY AtWork
<1> QED
  BY <1>1, <1>2, Writes

LEMMA MarksAndPublications ==
  ASSUME NoticeInv, NEW p \in Procs
  PROVE  /\ Defer(p) => NoticeInv'
         /\ WritePublished(p) => NoticeInv'
         /\ MarkNoticeApprovalPending(p) => NoticeInv'
         /\ MarkNoticeApproved(p) => NoticeInv'
<1>1. PICK s, n, v, h, g : s = proc[p] /\ n = s.n /\ v = notice[n] /\ h = past[n] /\ g = past'[n]
  OBVIOUS
<1>2. CASE Defer(p)
  <2>1. /\ s.pc = "defer" /\ Put(p, Scheduled(v)) /\ Finish(p) /\ UNCHANGED <<event, rows, approval, spent>>
    BY <1>1, <1>2 DEF Defer, At
  <2>2. Working(s) /\ s.pc \notin {"accept", "record"}
    BY <2>1 DEF Working, Resting
  <2>3. v \in NoticeRows
    BY <1>1, <2>2, AtWork
  <2>4. PICK w : w = Scheduled(v)
    OBVIOUS
  <2>5. w \in NoticeRows /\ w.st = "SCHEDULED" /\ w.from = v.from
    BY <2>3, <2>4 DEF Scheduled, NoticeRows, Statuses, Times
  <2>6. Over(p, n, v, w, h, g)
    BY <1>1, <2>1, <2>2, <2>4, <2>5, Overs
  <2>7. RowVetted(w, approval[n], g) /\ ~Withdrawal(w)
    BY <2>5, <2>6, OverVetted DEF Withdrawal
  <2>8. PICK r \in ProcRows : /\ proc' = [proc EXCEPT ![p] = r]
                              /\ ~Working(r) \/ (r.pc = "APPLIED" /\ r.n = n)
    BY <1>1, <2>1, FinishRow
  <2>9. Knows(r) /\ (Working(r) => r.n = n) /\ r.pc \notin {"accept", "record"} /\ (Working(r) => ProcVetted(r, w, g))
    BY <2>5, <2>6, <2>8 DEF Over, Knows, ProcVetted, OnApproval, Working, Resting
  <2> QED
    BY <1>1, <2>1, <2>2, <2>4, <2>5, <2>7, <2>8, <2>9, Rewrites
<1>3. CASE WritePublished(p)
  <2>1. s.pc = "write" /\ Finish(p) /\ UNCHANGED <<event, rows, approval, spent>>
    BY <1>1, <1>3 DEF WritePublished, At
  <2>2. Working(s) /\ s.pc \notin {"accept", "record"} /\ \A m : ~Announces(s, m)
    BY <2>1 DEF Working, Resting, Announces
  <2>3. v \in NoticeRows /\ spent' \in [ops : Nat, faults : Nat] /\ n \in Notices
    BY <1>1, <2>1, <2>2, AtWork
  <2>4. PICK r \in ProcRows : /\ proc' = [proc EXCEPT ![p] = r]
                              /\ ~Working(r) \/ (r.pc = "APPLIED" /\ r.n = n)
    BY <1>1, <2>1, FinishRow
  <2>5. CASE UNCHANGED <<notice, past>>
    BY <1>1, <2>1, <2>2, <2>3, <2>4, <2>5, Leaves
  <2>6. CASE Put(p, [v EXCEPT !.st = "PUBLISHED", !.published = TRUE, !.sched = "none"])
    <3>1. PICK w : w = [v EXCEPT !.st = "PUBLISHED", !.published = TRUE, !.sched = "none"]
      OBVIOUS
    <3>2. w \in NoticeRows /\ w.st = "PUBLISHED" /\ w.from = v.from
      BY <2>3, <3>1 DEF NoticeRows, Statuses, Times
    <3>3. Over(p, n, v, w, h, g)
      BY <1>1, <2>2, <2>6, <3>1, <3>2, Overs
    <3>4. g.approved
      BY <1>1, <2>1, <3>3 DEF Over, ProcVetted, OnApproval
    <3>5. RowVetted(w, approval[n], g) /\ ~Withdrawal(w)
      BY <3>2, <3>4 DEF RowVetted, Withdrawal
    <3>6. Knows(r) /\ (Working(r) => r.n = n) /\ r.pc \notin {"accept", "record"} /\ (Working(r) => ProcVetted(r, w, g))
      BY <2>3, <2>4, <3>2, <3>4 DEF Knows, ProcVetted, Working, Resting
    <3> QED
      BY <1>1, <2>1, <2>2, <2>4, <2>6, <3>1, <3>2, <3>5, <3>6, Rewrites
  <2> QED
    BY <1>1, <1>3, <2>5, <2>6 DEF WritePublished
<1>4. CASE MarkNoticeApprovalPending(p)
  <2>1. /\ s.pc = "markPending" /\ Put(p, [v EXCEPT !.st = "APPROVAL_PENDING"]) /\ End(p)
        /\ UNCHANGED <<event, rows, approval, spent>>
    BY <1>1, <1>4 DEF MarkNoticeApprovalPending, At
  <2>2. Working(s) /\ s.pc \notin {"accept", "record"}
    BY <2>1 DEF Working, Resting
  <2>3. v \in NoticeRows
    BY <1>1, <2>2, AtWork
  <2>4. PICK w : w = [v EXCEPT !.st = "APPROVAL_PENDING"]
    OBVIOUS
  <2>5. w \in NoticeRows /\ w.st = "APPROVAL_PENDING" /\ w.from = v.from
    BY <2>3, <2>4 DEF NoticeRows, Statuses
  <2>6. Over(p, n, v, w, h, g)
    BY <1>1, <2>1, <2>2, <2>4, <2>5, Overs
  <2>7. RowVetted(w, approval[n], g) /\ ~Withdrawal(w)
    BY <2>5, <2>6, OverVetted DEF Withdrawal
  <2>8. PICK r \in ProcRows : proc' = [proc EXCEPT ![p] = r] /\ ~Working(r)
    BY <2>1, EndRow
  <2>9. Knows(r) /\ r.pc \notin {"accept", "record"}
    BY <2>8 DEF Knows, Working, Resting
  <2> QED
    BY <1>1, <2>1, <2>2, <2>4, <2>5, <2>7, <2>8, <2>9, Rewrites
<1>5. CASE MarkNoticeApproved(p)
  <2>1. /\ s.pc = "markApproved" /\ Put(p, [v EXCEPT !.st = "APPROVED"]) /\ Go(p, "send")
        /\ UNCHANGED <<event, rows, approval, spent>>
    BY <1>1, <1>5 DEF MarkNoticeApproved, At
  <2>2. Working(s) /\ s.pc \notin {"accept", "record"}
    BY <2>1 DEF Working, Resting
  <2>3. v \in NoticeRows
    BY <1>1, <2>2, AtWork
  <2>4. PICK w : w = [v EXCEPT !.st = "APPROVED"]
    OBVIOUS
  <2>5. w \in NoticeRows /\ w.st = "APPROVED" /\ w.from = v.from
    BY <2>3, <2>4 DEF NoticeRows, Statuses
  <2>6. Over(p, n, v, w, h, g)
    BY <1>1, <2>1, <2>2, <2>4, <2>5, Overs
  <2>7. g.approved
    BY <1>1, <2>1, <2>6 DEF Over, ProcVetted, OnApproval
  <2>8. RowVetted(w, approval[n], g) /\ ~Withdrawal(w)
    BY <2>5, <2>7 DEF RowVetted, Withdrawal
  <2>9. PICK r \in ProcRows : proc' = [proc EXCEPT ![p] = r] /\ r.pc = "send" /\ r.n = n /\ r.arg = s.arg
    BY <1>1, <2>1, GoRow DEF Steps
  <2>10. Knows(r) /\ r.n = n /\ r.pc \notin {"accept", "record"} /\ ProcVetted(r, w, g)
    BY <1>1, <2>1, <2>5, <2>6, <2>7, <2>9 DEF Over, Knows, ProcVetted
  <2> QED
    BY <1>1, <2>1, <2>2, <2>4, <2>5, <2>8, <2>9, <2>10, Rewrites
<1> QED
  BY <1>2, <1>3, <1>4, <1>5

\* What the others have read of a notice still counts when it becomes w with
\* the history g.
Milder(v, h, w, g) ==
  w.st # "none" /\ w.prio = v.prio /\ (h.approved => g.approved) /\ (h.raised => g.raised)

LEMMA Others ==
  ASSUME NoticeInv, NEW P \in SUBSET Procs, \A q \in P : proc'[q] = proc[q],
         \A m \in Notices : notice[m].st # "none" => Milder(notice[m], past[m], notice'[m], past'[m])
  PROVE  \A q \in P :
           /\ Knows(proc'[q])
           /\ Working(proc'[q]) => ProcVetted(proc'[q], notice'[proc'[q].n], past'[proc'[q].n])
<1> SUFFICES ASSUME NEW q \in P
             PROVE  /\ Knows(proc'[q])
                    /\ Working(proc'[q]) => ProcVetted(proc'[q], notice'[proc'[q].n], past'[proc'[q].n])
  OBVIOUS
<1>1. PICK s, m, v, h, w, g : /\ s = proc[q] /\ m = s.n /\ v = notice[m] /\ h = past[m]
                              /\ w = notice'[m] /\ g = past'[m]
  OBVIOUS
<1>2. proc'[q] = s /\ Knows(s) /\ (Working(s) => m \in Notices /\ ProcVetted(s, v, h))
  BY <1>1, AtWork
<1>3. Working(s) => ProcVetted(s, w, g)
  <2> SUFFICES ASSUME Working(s) PROVE ProcVetted(s, w, g)
    OBVIOUS
  <2>1. m \in Notices /\ ProcVetted(s, v, h)
    BY <1>2
  <2>2. Milder(v, h, w, g)
    BY <1>1, <2>1 DEF ProcVetted
  <2> QED
    BY <2>1, <2>2 DEF Milder, ProcVetted
<1> QED
  BY <1>1, <1>2, <1>3

\* The steps that change a notice, or its deliveries, and are no plain write.
LEMMA RecordKeeps == ASSUME NoticeInv, NEW p \in Procs, RecordDeliveryRecords(p) PROVE NoticeInv'
<1>1. PICK s, n : s = proc[p] /\ n = s.n
  OBVIOUS
<1>2. /\ s.pc = "record" /\ Working(s) /\ n \in Notices /\ Knows(s) /\ ProcVetted(s, notice[n], past[n])
      /\ UNCHANGED <<notice, approval>> /\ spent' \in [ops : Nat, faults : Nat] /\ ListenerFails(p)
  <2>1. s.pc = "record" /\ UNCHANGED <<notice, approval>> /\ ListenerFails(p)
    BY <1>1 DEF RecordDeliveryRecords, At, ListenerFails
  <2>2. spent' \in [ops : Nat, faults : Nat]
    BY AtWork DEF RecordDeliveryRecords
  <2> QED
    BY <1>1, <2>1, <2>2, AtWork DEF Working, Resting
<1>3. /\ notice \in [Notices -> NoticeRows] /\ event \in [Notices -> {"none", "ACCEPTED", "DISPATCHED", "FAILED"}]
      /\ rows \in [Notices -> {"none", "queued", "cancelled"}] /\ approval \in [Notices -> ApprovalRows]
      /\ past \in [Notices -> PastRows]
  BY DEF NoticeInv, Typed
<1>4. event' \in [Notices -> {"none", "ACCEPTED", "DISPATCHED", "FAILED"}]
  BY <1>1, <1>2, <1>3 DEF RecordDeliveryRecords
<1>5. PICK recorded : recorded = [rows EXCEPT ![n] = Recorded(@)]
  OBVIOUS
<1>6. /\ recorded \in [Notices -> {"none", "queued", "cancelled"}] /\ recorded[n] # "none"
      /\ \A m \in Notices : m # n => recorded[m] = rows[m]
  BY <1>2, <1>3, <1>5 DEF Recorded
<1>7. \/ rows' = recorded /\ past' = past
      \/ rows' \in {rows, recorded} /\ past' = [past EXCEPT ![n].lost = TRUE]
  BY <1>1, <1>5 DEF RecordDeliveryRecords
<1>8. /\ past' \in [Notices -> PastRows] /\ (\A m \in Notices : m # n => past'[m] = past[m])
      /\ \A m \in Notices : /\ past'[m].claims = past[m].claims /\ past'[m].reopened = past[m].reopened
                            /\ past'[m].raced = past[m].raced /\ past'[m].misfiled = past[m].misfiled
                            /\ past'[m].raised = past[m].raised /\ past'[m].approved = past[m].approved
      /\ rows' = recorded \/ past'[n].lost
  <2>1. CASE past' = past /\ rows' = recorded
    BY <1>3, <2>1
  <2>2. CASE past' = [past EXCEPT ![n].lost = TRUE]
    <3>1. PICK h, g : h = past[n] /\ h \in PastRows /\ g = [h EXCEPT !.lost = TRUE]
      BY <1>2, <1>3
    <3>2. /\ g \in PastRows /\ g.lost /\ g.claims = h.claims /\ g.reopened = h.reopened
          /\ g.raced = h.raced /\ g.misfiled = h.misfiled /\ g.raised = h.raised /\ g.approved = h.approved
      BY <3>1 DEF PastRows
    <3>3. past' = [past EXCEPT ![n] = g]
      BY <2>2, <3>1, Zenon
    <3>4. past' \in [Notices -> PastRows] /\ past'[n] = g /\ \A m \in Notices : m # n => past'[m] = past[m]
      BY <1>2, <1>3, <3>2, <3>3
    <3> QED
      BY <3>1, <3>2, <3>4
  <2> QED
    BY <1>7, <2>1, <2>2
<1>9. rows' \in [Notices -> {"none", "queued", "cancelled"}] /\ \A m \in Notices : m # n => rows'[m] = rows[m]
  BY <1>3, <1>6, <1>7
<1>10. PICK r \in ProcRows :
          /\ proc' = [proc EXCEPT ![p] = r]
          /\ \/ ~Working(r)
             \/ r.pc = "APPLY_FAILED" /\ r.n = n
             \/ r.pc = "write" /\ r.n = n /\ s.via \in {"mobile", "approval"}
  BY <1>1, <1>2, HeardRow
<1>11. /\ proc' \in [Procs -> ProcRows] /\ proc'[p] = r
       /\ \A q \in Procs : q # p => proc'[q] = proc[q]
       /\ \A m : Owed(m)' <=> Announces(r, m) \/ \E q \in Procs \ {p} : Announcing(q, m)
       /\ \A m : Owed(m) <=> Announces(proc[p], m) \/ \E q \in Procs \ {p} : Announcing(q, m)
  BY <1>10, ProcMoved
<1>12. /\ Knows(r) /\ (\A m : ~Announces(r, m)) /\ (\A m : Announces(s, m) <=> m = n)
       /\ Working(r) => ProcVetted(r, notice[n], past[n]) /\ r.n = n
  BY <1>1, <1>2, <1>10 DEF Knows, ProcVetted, OnApproval, Announces, Working, Resting
<1>13. Typed'
  BY <1>2, <1>3, <1>4, <1>8, <1>9, <1>11 DEF Typed
<1>14. \A m \in Notices : notice[m].st # "none" => Milder(notice[m], past[m], notice'[m], past'[m])
  BY <1>2, <1>8 DEF Milder
<1>15. \A q \in Procs \ {p} :
           /\ Knows(proc'[q])
           /\ Working(proc'[q]) => ProcVetted(proc'[q], notice'[proc'[q].n], past'[proc'[q].n])
  BY <1>11, <1>14, Others
<1>16. Working(r) => ProcVetted(r, notice'[r.n], past'[r.n])
  <2>1. PICK v, h, g : v = notice[n] /\ h = past[n] /\ g = past'[n]
    OBVIOUS
  <2>2. g.approved = h.approved /\ g.raised = h.raised
    BY <1>2, <1>8, <2>1
  <2>3. Working(r) => ProcVetted(r, v, g) /\ r.n = n
    BY <1>12, <2>1, <2>2 DEF ProcVetted
  <2> QED
    BY <1>2, <2>1, <2>3
<1>17. \A m \in Notices : RowVetted(notice'[m], approval'[m], past'[m])
  BY <1>2, <1>8 DEF NoticeInv, Vetted, RowVetted
<1>18. Vetted'
  BY <1>11, <1>15, <1>16, <1>17 DEF Vetted
<1>19. Silent'
  <2> SUFFICES ASSUME NEW m \in Notices, Withdrawal(notice'[m]), ~past'[m].raced, ~past'[m].misfiled
               PROVE  rows'[m] # "queued" /\ ~Owed(m)'
    BY DEF Silent
  <2>1. rows[m] # "queued" /\ ~Owed(m)
    BY <1>2, <1>8 DEF NoticeInv, Silent
  <2>2. m # n
    BY <1>1, <1>11, <1>12, <2>1
  <2> QED
    BY <1>9, <1>11, <1>12, <2>1, <2>2
<1>20. Heard'
  <2> SUFFICES ASSUME NEW m \in Notices, past'[m].claims > past'[m].reopened, ~past'[m].raced,
                      ~past'[m].lost, rows'[m] = "none"
               PROVE  notice'[m].st = "PUBLISHED" /\ Owed(m)'
    BY DEF Heard
  <2>1. m # n
    BY <1>6, <1>8
  <2>2. notice[m].st = "PUBLISHED" /\ Owed(m)
    BY <1>8, <1>9, <2>1 DEF NoticeInv, Heard
  <2> QED
    BY <1>1, <1>2, <1>11, <1>12, <2>1, <2>2
<1> QED
  BY <1>11, <1>12, <1>13, <1>15, <1>18, <1>19, <1>20 DEF NoticeInv

\* The row of n becomes w and its history g; the handler p, who was not
\* announcing, goes on as r.
Told(v, h, w, g, announced) ==
  \/ w.st = "PUBLISHED" /\ announced
  \/ /\ g.claims = h.claims /\ g.reopened = h.reopened /\ g.raced = h.raced /\ g.lost = h.lost
     /\ w.st = v.st \/ v.st = "none"

LEMMA Becomes ==
  ASSUME NoticeInv, NEW p \in Procs, NEW n \in Notices, \A m : ~Announces(proc[p], m),
         NEW w \in NoticeRows, notice' = [notice EXCEPT ![n] = w],
         NEW g \in PastRows, past' = [past EXCEPT ![n] = g],
         NEW r \in ProcRows, proc' = [proc EXCEPT ![p] = r],
         UNCHANGED <<event, rows, approval>>, spent' \in [ops : Nat, faults : Nat],
         notice[n].st # "none" => Milder(notice[n], past[n], w, g),
         RowVetted(w, approval[n], g), Knows(r), Working(r) => r.n = n /\ ProcVetted(r, w, g),
         Withdrawal(w) => /\ Withdrawal(notice[n]) /\ ~Announces(r, n)
                          /\ g.raced = past[n].raced /\ g.misfiled = past[n].misfiled,
         Told(notice[n], past[n], w, g, Announces(r, n))
  PROVE  NoticeInv'
<1>1. /\ notice \in [Notices -> NoticeRows] /\ past \in [Notices -> PastRows]
  BY DEF NoticeInv, Typed
<1>2. /\ notice' \in [Notices -> NoticeRows] /\ notice'[n] = w
      /\ \A m \in Notices : m # n => notice'[m] = notice[m]
  BY <1>1
<1>3. /\ past' \in [Notices -> PastRows] /\ past'[n] = g
      /\ \A m \in Notices : m # n => past'[m] = past[m]
  BY <1>1
<1>4. /\ proc' \in [Procs -> ProcRows] /\ proc'[p] = r
      /\ \A q \in Procs : q # p => proc'[q] = proc[q]
      /\ \A m : Owed(m)' <=> Announces(r, m) \/ \E q \in Procs \ {p} : Announcing(q, m)
      /\ \A m : Owed(m) <=> Announces(proc[p], m) \/ \E q \in Procs \ {p} : Announcing(q, m)
  BY ProcMoved
<1>5. Typed'
  BY <1>2, <1>3, <1>4 DEF NoticeInv, Typed
<1>6. \A m \in Notices : notice[m].st # "none" => Milder(notice[m], past[m], notice'[m], past'[m])
  <2> SUFFICES ASSUME NEW m \in Notices, notice[m].st # "none" PROVE Milder(notice[m], past[m], notice'[m], past'[m])
    OBVIOUS
  <2>1. CASE m = n
    BY <1>2, <1>3, <2>1
  <2>2. CASE m # n
    BY <1>2, <1>3, <2>2 DEF Milder
  <2> QED
    BY <2>1, <2>2
<1>7. \A q \in Procs \ {p} :
           /\ Knows(proc'[q])
           /\ Working(proc'[q]) => ProcVetted(proc'[q], notice'[proc'[q].n], past'[proc'[q].n])
  BY <1>4, <1>6, Others
<1>8. \A m \in Notices : RowVetted(notice'[m], approval'[m], past'[m])
  <2> SUFFICES ASSUME NEW m \in Notices PROVE RowVetted(notice'[m], approval'[m], past'[m])
    OBVIOUS
  <2>1. CASE m = n
    BY <1>2, <1>3, <2>1
  <2>2. CASE m # n
    BY <1>2, <1>3, <2>2 DEF NoticeInv, Vetted
  <2> QED
    BY <2>1, <2>2
<1>9. Vetted'
  BY <1>2, <1>3, <1>4, <1>7, <1>8 DEF Vetted
<1>10. \A m \in Notices : m # n => ~Announces(r, m)
  BY DEF Announces, Working, Resting
<1>11. Silent'
  <2> SUFFICES ASSUME NEW m \in Notices, Withdrawal(notice'[m]), ~past'[m].raced, ~past'[m].misfiled
               PROVE  rows'[m] # "queued" /\ ~Owed(m)'
    BY DEF Silent
  <2>1. rows[m] # "queued" /\ ~Owed(m)
    <3>1. CASE m = n
      BY <1>2, <1>3, <3>1 DEF NoticeInv, Silent
    <3>2. CASE m # n
      BY <1>2, <1>3, <3>2 DEF NoticeInv, Silent
    <3> QED
      BY <3>1, <3>2
  <2>2. ~Announces(r, m)
    BY <1>2, <1>10
  <2> QED
    BY <1>4, <2>1, <2>2
<1>12. Heard'
  <2> SUFFICES ASSUME NEW m \in Notices, past'[m].claims > past'[m].reopened, ~past'[m].raced,
                      ~past'[m].lost, rows'[m] = "none"
               PROVE  notice'[m].st = "PUBLISHED" /\ Owed(m)'
    BY DEF Heard
  <2>1. CASE m = n
    <3>1. CASE w.st = "PUBLISHED" /\ Announces(r, n)
      BY <1>2, <1>4, <2>1, <3>1
    <3>2. CASE ~(w.st = "PUBLISHED" /\ Announces(r, n))
      <4>1. notice[n].st = "PUBLISHED" /\ Owed(n)
        BY <1>3, <2>1, <3>2 DEF Told, NoticeInv, Heard
      <4> QED
        BY <1>2, <1>4, <2>1, <3>2, <4>1 DEF Told
    <3> QED
      BY <3>1, <3>2
  <2>2. CASE m # n
    <3>1. notice[m].st = "PUBLISHED" /\ Owed(m)
      BY <1>3, <2>2 DEF NoticeInv, Heard
    <3> QED
      BY <1>2, <1>4, <2>2, <3>1
  <2> QED
    BY <2>1, <2>2
<1> QED
  BY <1>4, <1>5, <1>7, <1>9, <1>11, <1>12 DEF NoticeInv

LEMMA ClaimWon ==
  ASSUME NoticeInv, NEW p \in Procs, Claim(p), MayClaim(notice[proc[p].n], proc[p].arg)
  PROVE  NoticeInv'
<1>1. PICK s, n, v, h, a : s = proc[p] /\ n = s.n /\ v = notice[n] /\ h = past[n] /\ a = approval[n]
  OBVIOUS
<1>2. /\ s.pc = "claim" /\ Working(s) /\ n \in Notices /\ Knows(s) /\ ProcVetted(s, v, h) /\ RowVetted(v, a, h)
      /\ v \in NoticeRows /\ h \in PastRows /\ s \in ProcRows /\ v.st = s.arg
  <2>1. s.pc = "claim" /\ v.st = s.arg
    BY <1>1 DEF Claim, At, MayClaim
  <2> QED
    BY <1>1, <2>1, AtWork DEF Working, Resting
<1>3. /\ notice' = [notice EXCEPT ![n].st = "PUBLISHED", ![n].published = TRUE, ![n].sched = "none"]
      /\ past' = [past EXCEPT ![n].claims = @ + 1]
      /\ proc' = [proc EXCEPT ![p].pc = "accept", ![p].arg = None]
      /\ UNCHANGED <<event, rows, approval, spent>>
  BY <1>1 DEF Claim
<1>4. PICK w, g, r : /\ w = [v EXCEPT !.st = "PUBLISHED", !.published = TRUE, !.sched = "none"]
                     /\ g = [h EXCEPT !.claims = @ + 1]
                     /\ r = [s EXCEPT !.pc = "accept", !.arg = None]
  OBVIOUS
<1>5. w \in NoticeRows /\ w.st = "PUBLISHED" /\ w.prio = v.prio /\ w.from = v.from
  BY <1>2, <1>4 DEF NoticeRows, Statuses, Times
<1>6. g \in PastRows /\ g.raised = h.raised /\ g.approved = h.approved
  BY <1>2, <1>4 DEF PastRows
<1>7. r \in ProcRows /\ r.pc = "accept" /\ r.n = n /\ r.via = s.via
  BY <1>1, <1>2, <1>4 DEF ProcRows, Steps, Args
<1>8. notice' = [notice EXCEPT ![n] = w] /\ past' = [past EXCEPT ![n] = g] /\ proc' = [proc EXCEPT ![p] = r]
  BY <1>1, <1>3, <1>4, Zenon
<1>9. spent' \in [ops : Nat, faults : Nat]
  BY <1>3, AtWork
<1>10. (\A m : ~Announces(s, m)) /\ Announces(r, n)
  BY <1>2, <1>7 DEF Announces
<1>11. Milder(v, h, w, g) /\ ~Withdrawal(w) /\ Told(v, h, w, g, Announces(r, n))
  BY <1>5, <1>6, <1>10 DEF Milder, Withdrawal, Told
<1>12. Knows(r) /\ ProcVetted(r, w, g) /\ RowVetted(w, a, g)
  <2>1. Knows(r) /\ ProcVetted(r, w, g)
    BY <1>2, <1>5, <1>6, <1>7 DEF Knows, ProcVetted, OnApproval, Statuses
  <2>2. RowVetted(w, a, g)
    BY <1>2, <1>5, <1>6 DEF RowVetted, ProcVetted
  <2> QED
    BY <2>1, <2>2
<1> QED
  BY <1>1, <1>2, <1>3, <1>5, <1>6, <1>7, <1>8, <1>9, <1>10, <1>11, <1>12, Becomes

LEMMA CreateNoticeKeeps ==
  ASSUME NoticeInv, NEW p \in Requests, NEW n \in Notices, CreateNotice(p, n) PROVE NoticeInv'
<1>1. PICK s, v, h, a : s = proc[p] /\ v = notice[n] /\ h = past[n] /\ a = approval[n]
  OBVIOUS
<1>2. /\ v.st = "none" /\ s.pc = "idle" /\ v \in NoticeRows /\ h \in PastRows /\ s \in ProcRows
      /\ p \in Procs /\ RowVetted(v, a, h) /\ Knows(s) /\ ~Working(s) /\ \A m : ~Announces(s, m)
      /\ UNCHANGED <<event, rows, approval, spent>> /\ spent' \in [ops : Nat, faults : Nat]
  <2>1. v.st = "none" /\ s.pc = "idle" /\ UNCHANGED <<event, rows, approval, spent>>
    BY <1>1 DEF CreateNotice, At
  <2>2. v \in NoticeRows /\ h \in PastRows /\ RowVetted(v, a, h)
    BY <1>1 DEF NoticeInv, Typed, Vetted
  <2>3. p \in Procs
    BY DEF Procs
  <2> QED
    BY <1>1, <2>1, <2>2, <2>3, AtWork DEF Working, Resting, Announces
<1>3. notice \in [Notices -> NoticeRows] /\ past \in [Notices -> PastRows] /\ proc \in [Procs -> ProcRows]
  BY DEF NoticeInv, Typed
<1>4. CASE /\ notice' = [notice EXCEPT ![n].st = "PUBLISHED", ![n].published = TRUE]
           /\ past' = [past EXCEPT ![n].claims = 1]
           /\ proc' = [proc EXCEPT ![p] = [Idle EXCEPT !.pc = "accept", !.n = n]]
  <2>1. PICK w, g, r : /\ w = [v EXCEPT !.st = "PUBLISHED", !.published = TRUE]
                       /\ g = [h EXCEPT !.claims = 1]
                       /\ r = [Idle EXCEPT !.pc = "accept", !.n = n]
    OBVIOUS
  <2>2. w \in NoticeRows /\ w.st = "PUBLISHED" /\ w.prio = v.prio /\ w.from = v.from
    BY <1>2, <2>1 DEF NoticeRows, Statuses
  <2>3. g \in PastRows /\ g.approved = h.approved
    BY <1>2, <2>1 DEF PastRows
  <2>4. r = [pc |-> "accept", n |-> n, via |-> "web", arg |-> None, due |-> {}]
    BY <2>1 DEF Idle
  <2>5. r \in ProcRows /\ r.pc = "accept" /\ r.n = n /\ r.via = "web"
    BY <2>4 DEF ProcRows, Steps, Args
  <2>6. notice' = [notice EXCEPT ![n] = w] /\ past' = [past EXCEPT ![n] = g] /\ proc' = [proc EXCEPT ![p] = r]
    BY <1>1, <1>4, <2>1, Zenon
  <2>7. Announces(r, n) /\ ~Withdrawal(w) /\ Told(v, h, w, g, Announces(r, n))
    BY <2>2, <2>5 DEF Announces, Withdrawal, Told
  <2>8. Knows(r) /\ ProcVetted(r, w, g) /\ RowVetted(w, a, g)
    BY <1>2, <2>2, <2>3, <2>5 DEF Knows, ProcVetted, OnApproval, RowVetted
  <2> QED
    BY <1>1, <1>2, <2>2, <2>3, <2>5, <2>6, <2>7, <2>8, Becomes
<1>5. CASE /\ notice' = [notice EXCEPT ![n].st = "SCHEDULED", ![n].sched = "future"]
           /\ UNCHANGED <<past, proc>>
  <2>1. PICK w : w = [v EXCEPT !.st = "SCHEDULED", !.sched = "future"]
    OBVIOUS
  <2>2. w \in NoticeRows /\ w.st = "SCHEDULED" /\ w.prio = v.prio /\ w.from = v.from
    BY <1>2, <2>1 DEF NoticeRows, Statuses, Times
  <2>3. notice' = [notice EXCEPT ![n] = w]
    BY <1>1, <1>5, <2>1, Zenon
  <2>4. past' = [past EXCEPT ![n] = h] /\ proc' = [proc EXCEPT ![p] = s]
    BY <1>1, <1>2, <1>3, <1>5
  <2>5. ~Withdrawal(w) /\ Told(v, h, w, h, Announces(s, n))
    BY <1>2, <2>2 DEF Withdrawal, Told
  <2>6. RowVetted(w, a, h)
    BY <1>2, <2>2 DEF RowVetted
  <2> QED
    BY <1>1, <1>2, <2>2, <2>3, <2>4, <2>5, <2>6, Becomes
<1> QED
  BY <1>4, <1>5 DEF CreateNotice

LEMMA CreateDraftKeeps ==
  ASSUME NoticeInv, NEW p \in Requests, NEW n \in Notices, CreateNoticeDraft(p, n) PROVE NoticeInv'
<1>1. PICK s, v, h, a : s = proc[p] /\ v = notice[n] /\ h = past[n] /\ a = approval[n]
  OBVIOUS
<1>2. /\ v.st = "none" /\ s.pc = "idle" /\ v \in NoticeRows /\ h \in PastRows /\ s \in ProcRows
      /\ p \in Procs /\ RowVetted(v, a, h) /\ Knows(s) /\ ~Working(s) /\ \A m : ~Announces(s, m)
      /\ UNCHANGED <<event, rows, approval, proc, past, spent>> /\ spent' \in [ops : Nat, faults : Nat]
  <2>1. v.st = "none" /\ s.pc = "idle" /\ UNCHANGED <<event, rows, approval, proc, past, spent>>
    BY <1>1 DEF CreateNoticeDraft, At
  <2>2. v \in NoticeRows /\ h \in PastRows /\ RowVetted(v, a, h)
    BY <1>1 DEF NoticeInv, Typed, Vetted
  <2>3. p \in Procs
    BY DEF Procs
  <2> QED
    BY <1>1, <2>1, <2>2, <2>3, AtWork DEF Working, Resting, Announces
<1>3. past \in [Notices -> PastRows] /\ proc \in [Procs -> ProcRows]
  BY DEF NoticeInv, Typed
<1>4. PICK prio \in Priorities, sched \in {"none", "future"} :
        notice' = [notice EXCEPT ![n].st = "DRAFT", ![n].prio = prio, ![n].sched = sched]
  BY DEF CreateNoticeDraft
<1>5. PICK w : w = [v EXCEPT !.st = "DRAFT", !.prio = prio, !.sched = sched]
  OBVIOUS
<1>6. w \in NoticeRows /\ w.st = "DRAFT" /\ w.from = v.from
  BY <1>2, <1>5 DEF NoticeRows, Statuses, Times
<1>7. notice' = [notice EXCEPT ![n] = w]
  BY <1>1, <1>4, <1>5, Zenon
<1>8. past' = [past EXCEPT ![n] = h] /\ proc' = [proc EXCEPT ![p] = s]
  BY <1>1, <1>2, <1>3
<1>9. ~Withdrawal(w) /\ Told(v, h, w, h, Announces(s, n)) /\ RowVetted(w, a, h)
  BY <1>2, <1>6 DEF Withdrawal, Told, RowVetted
<1> QED
  BY <1>1, <1>2, <1>6, <1>7, <1>8, <1>9, Becomes

LEMMA SubmitKeeps ==
  ASSUME NoticeInv, NEW p \in Requests, NEW n \in Notices, SubmitEmergencyNotice(p, n) PROVE NoticeInv'
<1>1. PICK s, v, h, a : s = proc[p] /\ v = notice[n] /\ h = past[n] /\ a = approval[n]
  OBVIOUS
<1>2. /\ s.pc = "idle" /\ v \in NoticeRows /\ h \in PastRows /\ p \in Procs /\ RowVetted(v, a, h)
      /\ (\A m : ~Announces(s, m)) /\ UNCHANGED <<event, rows, approval>>
      /\ spent' \in [ops : Nat, faults : Nat]
  <2>1. s.pc = "idle" /\ UNCHANGED <<event, rows, approval>>
    BY <1>1 DEF SubmitEmergencyNotice, At
  <2>2. v \in NoticeRows /\ h \in PastRows /\ RowVetted(v, a, h)
    BY <1>1 DEF NoticeInv, Typed, Vetted
  <2>3. p \in Procs
    BY DEF Procs
  <2>4. spent' \in [ops : Nat, faults : Nat]
    BY <2>3, AtWork DEF SubmitEmergencyNotice
  <2> QED
    BY <1>1, <2>1, <2>2, <2>3, <2>4 DEF Announces
<1>3. notice \in [Notices -> NoticeRows] /\ past \in [Notices -> PastRows]
  BY DEF NoticeInv, Typed
<1>4. PICK sched \in {"none", "future"}, required \in BOOLEAN :
        /\ \/ /\ notice[n].st = "none"
              /\ notice' = [notice EXCEPT ![n].st = "DRAFT", ![n].prio = "URGENT", ![n].mobile = TRUE,
                                          ![n].sched = IF required THEN "none" ELSE sched]
           \/ notice[n].mobile /\ UNCHANGED notice
        /\ proc' = [proc EXCEPT ![p] =
             [Idle EXCEPT !.pc = IF required THEN "request" ELSE "send", !.n = n,
                          !.via = "mobile", !.arg = sched]]
        /\ past' = [past EXCEPT ![n].approved = @ \/ ~required]
  BY Zenon DEF SubmitEmergencyNotice
<1>5. PICK pc : pc = IF required THEN "request" ELSE "send"
  OBVIOUS
<1>6. PICK r : r = [Idle EXCEPT !.pc = pc, !.n = n, !.via = "mobile", !.arg = sched]
  OBVIOUS
<1>7. r = [pc |-> pc, n |-> n, via |-> "mobile", arg |-> sched, due |-> {}]
  BY <1>6 DEF Idle
<1>8. r \in ProcRows /\ r.pc = pc /\ r.n = n /\ r.arg = sched /\ proc' = [proc EXCEPT ![p] = r]
  <2>1. r \in ProcRows /\ r.pc = pc /\ r.n = n /\ r.arg = sched
    BY <1>5, <1>7 DEF ProcRows, Steps, Args, Times
  <2>2. proc' = [proc EXCEPT ![p] = r]
    BY <1>4, <1>5, <1>6, Zenon
  <2> QED
    BY <2>1, <2>2
<1>9. \E x \in BOOLEAN : (x <=> past[n].approved \/ ~required) /\ past' = [past EXCEPT ![n].approved = x]
  BY <1>4, Zenon
<1>10. PICK x \in BOOLEAN : (x <=> h.approved \/ ~required) /\ past' = [past EXCEPT ![n].approved = x]
  BY <1>1, <1>9, Zenon
<1>11. PICK g : g = [h EXCEPT !.approved = x]
  OBVIOUS
<1>12. g \in PastRows /\ g.approved = x
  BY <1>2, <1>10, <1>11 DEF PastRows
<1>13. /\ g.claims = h.claims /\ g.reopened = h.reopened /\ g.lost = h.lost /\ g.raced = h.raced
       /\ g.misfiled = h.misfiled /\ g.raised = h.raised
  BY <1>2, <1>11 DEF PastRows
<1>14. past' = [past EXCEPT ![n] = g]
  BY <1>1, <1>10, <1>11, Zenon
<1>15. (h.approved => g.approved) /\ (~required => g.approved)
  BY <1>10, <1>12
<1>16. Knows(r) /\ (\A m : ~Announces(r, m)) /\ (OnApproval(r) => g.approved)
       /\ r.pc \in {"request", "send"}
  BY <1>5, <1>8, <1>15 DEF Knows, Announces, OnApproval, Times
<1>17. CASE /\ v.st = "none"
            /\ notice' = [notice EXCEPT ![n].st = "DRAFT", ![n].prio = "URGENT", ![n].mobile = TRUE,
                                        ![n].sched = IF required THEN "none" ELSE sched]
  <2>1. PICK time : time = IF required THEN "none" ELSE sched
    OBVIOUS
  <2>2. PICK w : w = [v EXCEPT !.st = "DRAFT", !.prio = "URGENT", !.mobile = TRUE, !.sched = time]
    OBVIOUS
  <2>3. w \in NoticeRows /\ w.st = "DRAFT" /\ w.from = v.from
    BY <1>2, <2>1, <2>2, ZenonT(60) DEF NoticeRows, Statuses, Times, Priorities
  <2>4. notice' = [notice EXCEPT ![n] = w]
    BY <1>1, <1>17, <2>1, <2>2, Zenon
  <2>5. ~Withdrawal(w) /\ Told(v, h, w, g, Announces(r, n))
    BY <1>13, <1>17, <2>3 DEF Withdrawal, Told
  <2>6. RowVetted(w, a, g) /\ ProcVetted(r, w, g)
    BY <1>2, <1>15, <1>16, <2>3 DEF RowVetted, ProcVetted
  <2> QED
    BY <1>1, <1>2, <1>8, <1>12, <1>14, <1>16, <1>17, <2>3, <2>4, <2>5, <2>6, Becomes
<1>18. CASE v.mobile /\ UNCHANGED notice
  <2>1. v.st # "none"
    BY <1>2, <1>18 DEF RowVetted
  <2>2. notice' = [notice EXCEPT ![n] = v]
    BY <1>1, <1>3, <1>18
  <2>3. Milder(v, h, v, g) /\ Told(v, h, v, g, Announces(r, n))
    BY <1>13, <1>15, <2>1 DEF Milder, Told
  <2>4. RowVetted(v, a, g) /\ ProcVetted(r, v, g)
    BY <1>2, <1>13, <1>15, <1>16, <2>1 DEF RowVetted, ProcVetted
  <2>5. Withdrawal(v) => g.raced = h.raced /\ g.misfiled = h.misfiled /\ ~Announces(r, n)
    BY <1>13, <1>16
  <2> QED
    BY <1>1, <1>2, <1>8, <1>12, <1>14, <1>16, <2>1, <2>2, <2>3, <2>4, <2>5, Becomes
<1> QED
  BY <1>1, <1>4, <1>17, <1>18

\* The end of the cron's run retires what has expired.
LEMMA ExpiredKeeps == ASSUME NoticeInv, NEW p \in Procs, ProcessExpiredNotices(p) PROVE NoticeInv'
<1>1. /\ notice \in [Notices -> NoticeRows] /\ past \in [Notices -> PastRows]
      /\ UNCHANGED <<event, rows, approval, spent>> /\ End(p) /\ \A m : ~Announces(proc[p], m)
  BY DEF NoticeInv, Typed, ProcessExpiredNotices, At, Announces
<1>2. PICK r \in ProcRows : proc' = [proc EXCEPT ![p] = r] /\ ~Working(r)
  BY <1>1, EndRow
<1>3. /\ proc' \in [Procs -> ProcRows] /\ proc'[p] = r
      /\ \A q \in Procs : q # p => proc'[q] = proc[q]
      /\ \A m : Owed(m)' <=> Announces(r, m) \/ \E q \in Procs \ {p} : Announcing(q, m)
      /\ \A m : Owed(m) <=> Announces(proc[p], m) \/ \E q \in Procs \ {p} : Announcing(q, m)
  BY <1>2, ProcMoved
<1>4. Knows(r) /\ (\A m : ~Announces(r, m)) /\ (\A m : Owed(m)' <=> Owed(m))
  BY <1>1, <1>2, <1>3 DEF Knows, Announces, Working, Resting
<1>5. /\ notice' = [m \in Notices |-> IF Overdue(m) THEN [notice[m] EXCEPT !.st = "EXPIRED"] ELSE notice[m]]
      /\ past' = [m \in Notices |-> [past[m] EXCEPT !.raced = @ \/ (Overdue(m) /\ Owed(m))]]
  BY DEF ProcessExpiredNotices
<1>6. ASSUME NEW m \in Notices
      PROVE  /\ notice'[m] \in NoticeRows
             /\ notice'[m].st = IF Overdue(m) THEN "EXPIRED" ELSE notice[m].st
             /\ notice'[m].prio = notice[m].prio /\ notice'[m].from = notice[m].from
             /\ notice'[m].mobile = notice[m].mobile
  <2>1. PICK v : v = notice[m] /\ v \in NoticeRows
    BY <1>1
  <2>2. CASE Overdue(m)
    <3>1. PICK w : w = [v EXCEPT !.st = "EXPIRED"]
      OBVIOUS
    <3>2. notice'[m] = w
      BY <1>5, <2>1, <2>2, <3>1
    <3> QED
      BY <2>1, <2>2, <3>1, <3>2 DEF NoticeRows, Statuses
  <2>3. CASE ~Overdue(m)
    BY <1>5, <2>1, <2>3
  <2> QED
    BY <2>2, <2>3
<1>7. ASSUME NEW m \in Notices
      PROVE  /\ past'[m] \in PastRows /\ past'[m].claims = past[m].claims /\ past'[m].reopened = past[m].reopened
             /\ past'[m].lost = past[m].lost /\ past'[m].misfiled = past[m].misfiled
             /\ past'[m].raised = past[m].raised /\ past'[m].approved = past[m].approved
             /\ (past'[m].raced <=> past[m].raced \/ (Overdue(m) /\ Owed(m)))
  <2>1. past'[m] = [past[m] EXCEPT !.raced = (past[m].raced \/ (Overdue(m) /\ Owed(m)))]
    BY <1>5, Zenon
  <2>2. \E x \in BOOLEAN : /\ x <=> past[m].raced \/ (Overdue(m) /\ Owed(m))
                           /\ past'[m] = [past[m] EXCEPT !.raced = x]
    BY <2>1, Zenon
  <2>3. PICK x \in BOOLEAN : /\ x <=> past[m].raced \/ (Overdue(m) /\ Owed(m))
                             /\ past'[m] = [past[m] EXCEPT !.raced = x]
    BY <2>2
  <2>4. PICK h, g : h = past[m] /\ h \in PastRows /\ g = [h EXCEPT !.raced = x]
    BY <1>1
  <2>5. /\ g \in PastRows /\ g.claims = h.claims /\ g.reopened = h.reopened /\ g.lost = h.lost
        /\ g.misfiled = h.misfiled /\ g.raised = h.raised /\ g.approved = h.approved /\ g.raced = x
    BY <2>4 DEF PastRows
  <2>6. past'[m] = g
    BY <2>3, <2>4
  <2> QED
    BY <2>3, <2>4, <2>5, <2>6
<1>8. notice' \in [Notices -> NoticeRows] /\ past' \in [Notices -> PastRows]
  BY <1>5, <1>6, <1>7
<1>9. Typed'
  BY <1>1, <1>3, <1>8 DEF NoticeInv, Typed
<1>10. \A m \in Notices : notice[m].st # "none" => Milder(notice[m], past[m], notice'[m], past'[m])
  BY <1>6, <1>7 DEF Milder
<1>11. \A q \in Procs \ {p} :
           /\ Knows(proc'[q])
           /\ Working(proc'[q]) => ProcVetted(proc'[q], notice'[proc'[q].n], past'[proc'[q].n])
  BY <1>3, <1>10, Others
<1>12. \A m \in Notices : RowVetted(notice'[m], approval'[m], past'[m])
  BY <1>1, <1>6, <1>7 DEF NoticeInv, Vetted, RowVetted, Overdue
<1>13. Vetted'
  BY <1>2, <1>3, <1>11, <1>12 DEF Vetted
<1>14. Silent'
  <2> SUFFICES ASSUME NEW m \in Notices, Withdrawal(notice'[m]), ~past'[m].raced, ~past'[m].misfiled
               PROVE  rows'[m] # "queued" /\ ~Owed(m)'
    BY DEF Silent
  <2>1. Withdrawal(notice[m])
    BY <1>6 DEF Withdrawal
  <2> QED
    BY <1>1, <1>4, <1>7, <2>1 DEF NoticeInv, Silent
<1>15. Heard'
  <2> SUFFICES ASSUME NEW m \in Notices, past'[m].claims > past'[m].reopened, ~past'[m].raced,
                      ~past'[m].lost, rows'[m] = "none"
               PROVE  notice'[m].st = "PUBLISHED" /\ Owed(m)'
    BY DEF Heard
  <2>1. notice[m].st = "PUBLISHED" /\ Owed(m)
    BY <1>1, <1>7 DEF NoticeInv, Heard
  <2> QED
    BY <1>4, <1>6, <1>7, <2>1
<1> QED
  BY <1>3, <1>4, <1>9, <1>11, <1>13, <1>14, <1>15 DEF NoticeInv

LEMMA CrashKeeps == ASSUME NoticeInv, NEW p \in Procs, Crash(p) PROVE NoticeInv'
<1>1. /\ notice \in [Notices -> NoticeRows] /\ past \in [Notices -> PastRows]
      /\ UNCHANGED <<notice, event, rows, approval>> /\ proc' = [proc EXCEPT ![p] = Idle]
      /\ spent' \in [ops : Nat, faults : Nat]
  BY AtWork DEF NoticeInv, Typed, Crash
<1>2. PICK r \in ProcRows : r = Idle /\ ~Working(r)
  BY IdleRow
<1>3. /\ proc' \in [Procs -> ProcRows] /\ proc'[p] = r
      /\ \A q \in Procs : q # p => proc'[q] = proc[q]
      /\ \A m : Owed(m)' <=> Announces(r, m) \/ \E q \in Procs \ {p} : Announcing(q, m)
      /\ \A m : Owed(m) <=> Announces(proc[p], m) \/ \E q \in Procs \ {p} : Announcing(q, m)
  BY <1>1, <1>2, ProcMoved
<1>4. Knows(r) /\ (\A m : ~Announces(r, m)) /\ (\A m : Owed(m)' => Owed(m))
      /\ \A m : Owed(m) => Owed(m)' \/ Announcing(p, m)
  BY <1>2, <1>3 DEF Knows, Announces, Working, Resting, Announcing
<1>5. past' = [m \in Notices |-> [past[m] EXCEPT !.lost = @ \/ Announcing(p, m)]]
  BY DEF Crash
<1>6. ASSUME NEW m \in Notices
      PROVE  /\ past'[m] \in PastRows /\ past'[m].claims = past[m].claims /\ past'[m].reopened = past[m].reopened
             /\ past'[m].raced = past[m].raced /\ past'[m].misfiled = past[m].misfiled
             /\ past'[m].raised = past[m].raised /\ past'[m].approved = past[m].approved
             /\ (past'[m].lost <=> past[m].lost \/ Announcing(p, m))
  <2>1. past'[m] = [past[m] EXCEPT !.lost = (past[m].lost \/ Announcing(p, m))]
    BY <1>5, Zenon
  <2>2. \E x \in BOOLEAN : (x <=> past[m].lost \/ Announcing(p, m)) /\ past'[m] = [past[m] EXCEPT !.lost = x]
    BY <2>1, Zenon
  <2>3. PICK x \in BOOLEAN : (x <=> past[m].lost \/ Announcing(p, m)) /\ past'[m] = [past[m] EXCEPT !.lost = x]
    BY <2>2
  <2>4. PICK h, g : h = past[m] /\ h \in PastRows /\ g = [h EXCEPT !.lost = x]
    BY <1>1
  <2>5. /\ g \in PastRows /\ g.claims = h.claims /\ g.reopened = h.reopened /\ g.raced = h.raced
        /\ g.misfiled = h.misfiled /\ g.raised = h.raised /\ g.approved = h.approved /\ g.lost = x
    BY <2>4 DEF PastRows
  <2>6. past'[m] = g
    BY <2>3, <2>4
  <2> QED
    BY <2>3, <2>4, <2>5, <2>6
<1>7. past' \in [Notices -> PastRows]
  BY <1>5, <1>6
<1>8. Typed'
  BY <1>1, <1>3, <1>7 DEF NoticeInv, Typed
<1>9. \A m \in Notices : notice[m].st # "none" => Milder(notice[m], past[m], notice'[m], past'[m])
  BY <1>1, <1>6 DEF Milder
<1>10. \A q \in Procs \ {p} :
           /\ Knows(proc'[q])
           /\ Working(proc'[q]) => ProcVetted(proc'[q], notice'[proc'[q].n], past'[proc'[q].n])
  BY <1>3, <1>9, Others
<1>11. \A m \in Notices : RowVetted(notice'[m], approval'[m], past'[m])
  BY <1>1, <1>6 DEF NoticeInv, Vetted, RowVetted
<1>12. Vetted'
  BY <1>2, <1>3, <1>10, <1>11 DEF Vetted
<1>13. Silent'
  BY <1>1, <1>4, <1>6 DEF NoticeInv, Silent
<1>14. Heard'
  BY <1>1, <1>4, <1>6 DEF NoticeInv, Heard
<1> QED
  BY <1>3, <1>4, <1>8, <1>10, <1>12, <1>13, <1>14 DEF NoticeInv

\* Time changes nothing that is said of a notice.
LEMMA TimeKeeps ==
  ASSUME NoticeInv, NEW n \in Notices, ScheduledTimeComes(n) \/ ExpiryComes(n) PROVE NoticeInv'
<1>1. /\ notice \in [Notices -> NoticeRows] /\ approval \in [Notices -> ApprovalRows]
      /\ UNCHANGED <<event, rows, proc, past, spent>>
  BY DEF NoticeInv, Typed, ScheduledTimeComes, ExpiryComes
<1>2. PICK v, a : v = notice[n] /\ v \in NoticeRows /\ a = approval[n] /\ a \in ApprovalRows
  BY <1>1
<1>3. PICK w \in NoticeRows, b \in ApprovalRows :
        /\ w.st = v.st /\ w.prio = v.prio /\ w.from = v.from /\ w.mobile = v.mobile /\ b.st = a.st
        /\ notice' = [notice EXCEPT ![n] = w] /\ approval' = [approval EXCEPT ![n] = b]
  <2>1. CASE ScheduledTimeComes(n)
    <3>1. PICK t, u : t = Passed(v.sched) /\ u = Passed(a.sched)
      OBVIOUS
    <3>2. PICK w, b : w = [v EXCEPT !.sched = t] /\ b = [a EXCEPT !.sched = u]
      OBVIOUS
    <3>3. t \in Times /\ u \in Times
      BY <1>2, <3>1 DEF NoticeRows, ApprovalRows, Passed, Times
    <3>4. w \in NoticeRows /\ w.st = v.st /\ w.prio = v.prio /\ w.from = v.from /\ w.mobile = v.mobile
      BY <1>2, <3>2, <3>3 DEF NoticeRows
    <3>5. b \in ApprovalRows /\ b.st = a.st
      BY <1>2, <3>2, <3>3 DEF ApprovalRows
    <3>6. notice' = [notice EXCEPT ![n] = w] /\ approval' = [approval EXCEPT ![n] = b]
      BY <1>2, <2>1, <3>1, <3>2, Zenon DEF ScheduledTimeComes
    <3> QED
      BY <3>4, <3>5, <3>6
  <2>2. CASE ExpiryComes(n)
    <3>1. PICK w : w = [v EXCEPT !.expiry = "past"]
      OBVIOUS
    <3>2. w \in NoticeRows /\ w.st = v.st /\ w.prio = v.prio /\ w.from = v.from /\ w.mobile = v.mobile
      BY <1>2, <3>1 DEF NoticeRows, Times
    <3>3. notice' = [notice EXCEPT ![n] = w]
      BY <1>2, <2>2, <3>1, Zenon DEF ExpiryComes
    <3>4. approval' = [approval EXCEPT ![n] = a]
      BY <1>1, <1>2, <2>2 DEF ExpiryComes
    <3> QED
      BY <1>2, <3>2, <3>3, <3>4
  <2> QED
    BY <2>1, <2>2
<1>4. /\ notice' \in [Notices -> NoticeRows] /\ approval' \in [Notices -> ApprovalRows]
      /\ \A m \in Notices :
           /\ notice'[m].st = notice[m].st /\ notice'[m].prio = notice[m].prio
           /\ notice'[m].from = notice[m].from /\ notice'[m].mobile = notice[m].mobile
           /\ approval'[m].st = approval[m].st
  BY <1>1, <1>2, <1>3
<1>5. Typed'
  BY <1>1, <1>4 DEF NoticeInv, Typed
<1>6. \A m \in Notices : notice[m].st # "none" => Milder(notice[m], past[m], notice'[m], past'[m])
  BY <1>1, <1>4 DEF Milder
<1>7. Procs \in SUBSET Procs /\ \A q \in Procs : proc'[q] = proc[q]
  BY <1>1
<1>8. \A q \in Procs :
        /\ Knows(proc'[q])
        /\ Working(proc'[q]) => ProcVetted(proc'[q], notice'[proc'[q].n], past'[proc'[q].n])
  BY <1>6, <1>7, Others
<1>9. \A m \in Notices : RowVetted(notice'[m], approval'[m], past'[m])
  BY <1>1, <1>4 DEF NoticeInv, Vetted, RowVetted
<1>10. \A m : Owed(m)' <=> Owed(m)
  BY <1>1 DEF Owed, Announcing
<1>11. \A m \in Notices : Withdrawal(notice'[m]) <=> Withdrawal(notice[m])
  BY <1>4 DEF Withdrawal
<1>12. Vetted' /\ Silent' /\ Heard'
  BY <1>1, <1>4, <1>8, <1>9, <1>10, <1>11 DEF NoticeInv, Vetted, Silent, Heard
<1> QED
  BY <1>5, <1>8, <1>12 DEF NoticeInv

LEMMA StutterKeeps == ASSUME NoticeInv, UNCHANGED vars PROVE NoticeInv'
  BY DEF vars, NoticeInv, Typed, Vetted, Silent, Heard, Owed, Announcing

LEMMA InitNotice == Init => NoticeInv
<1> SUFFICES ASSUME Init PROVE NoticeInv
  OBVIOUS
<1>1. PICK due : due = [NoNotice EXCEPT !.st = "SCHEDULED", !.sched = "past"]
  OBVIOUS
<1>2. due = [st |-> "SCHEDULED", prio |-> "NORMAL", published |-> FALSE, sched |-> "past",
             expiry |-> "none", from |-> "none", mobile |-> FALSE]
  BY <1>1 DEF NoNotice
<1>3. due \in NoticeRows /\ NoNotice \in NoticeRows
  BY <1>2 DEF NoNotice, NoticeRows, Statuses, Priorities, Times
<1>4. \A n \in Notices : notice[n] = due \/ notice[n] = NoNotice
  BY <1>1 DEF Init
<1>5. notice \in [Notices -> NoticeRows]
  BY <1>1, <1>3 DEF Init
<1>6. approval \in [Notices -> ApprovalRows] /\ NoPast \in PastRows
  BY DEF Init, NoApproval, ApprovalRows, NoPast, PastRows, Times
<1>7. past \in [Notices -> PastRows] /\ proc \in [Procs -> ProcRows]
  BY <1>6, IdleRow DEF Init
<1>8. Typed
  BY <1>5, <1>6, <1>7 DEF Init, Typed
<1>9. \A p \in Procs : ~Working(proc[p]) /\ Knows(proc[p])
  BY IdleRow DEF Init, Knows, Idle
<1>10. \A n \in Notices : RowVetted(notice[n], approval[n], past[n]) /\ ~Withdrawal(notice[n])
  BY <1>2, <1>4 DEF Init, NoNotice, NoApproval, NoPast, RowVetted, Withdrawal
<1>11. \A n \in Notices : ~(past[n].claims > past[n].reopened)
  BY DEF Init, NoPast
<1> QED
  BY <1>8, <1>9, <1>10, <1>11 DEF NoticeInv, Vetted, Silent, Heard

LEMMA StepKeeps == ASSUME NoticeInv, NEW p \in Procs, Step(p) PROVE NoticeInv'
<1>1. CASE Write(p)
  BY <1>1, WriteKeeps
<1>2. CASE Claim(p)
  BY <1>2, ClaimWon, ClaimLost
<1>3. CASE PublishNotice(p)
  BY <1>3, PublishNoticeKeeps
<1>4. CASE Defer(p) \/ WritePublished(p) \/ MarkNoticeApprovalPending(p) \/ MarkNoticeApproved(p)
  BY <1>4, MarksAndPublications
<1>5. CASE Accept(p)
  BY <1>5, AcceptKeeps
<1>6. CASE RecordDeliveryRecords(p)
  BY <1>6, RecordKeeps
<1>7. CASE CreateRequest(p)
  BY <1>7, CreateRequestKeeps
<1>8. CASE ReadForMark(p)
  BY <1>8, ReadForMarkKeeps
<1>9. CASE CommitDecision(p)
  BY <1>9, CommitDecisionKeeps
<1>10. CASE ApplyFinalAction(p)
  BY <1>10, ApplyFinalActionKeeps
<1>11. CASE EndFinalAction(p)
  BY <1>11, EndFinalActionKeeps
<1>12. CASE CronStep(p)
  BY <1>12, DueKeeps, ActorKeeps, ScheduledKeeps, ExpiredKeeps DEF CronStep
<1> QED
  BY <1>1, <1>2, <1>3, <1>4, <1>5, <1>6, <1>7, <1>8, <1>9, <1>10, <1>11, <1>12 DEF Step

LEMMA NextNotice == NoticeInv /\ [Next]_vars => NoticeInv'
<1> SUFFICES ASSUME NoticeInv, [Next]_vars PROVE NoticeInv'
  OBVIOUS
<1>1. CASE \E p \in Procs : Step(p) \/ Crash(p)
  BY <1>1, StepKeeps, CrashKeeps
<1>2. CASE \E p \in Requests, n \in Notices \ Waiting : Call(p, n)
  BY <1>2, Called, CreateNoticeKeeps, CreateDraftKeeps, SubmitKeeps DEF Call
<1>3. CASE \E n \in Notices : ScheduledTimeComes(n) \/ ExpiryComes(n)
  BY <1>3, TimeKeeps
<1>4. CASE UNCHANGED vars
  BY <1>4, StutterKeeps
<1> QED
  BY <1>1, <1>2, <1>3, <1>4 DEF Next

\* Whatever the handlers have read, the invariant that the theorems below rest
\* on holds: for any number of notices, requests and runs of the cron.
THEOREM NoticesSafe == Spec => []NoticeInv
  BY InitNotice, NextNotice, PTL DEF Spec

\* Every variable keeps its type, and no notice is kept as archived from the
\* archive.  (archiveNotice, communications.service.ts:828)
THEOREM NoticesTyped == Spec => []TypeOK
<1>1. NoticeInv => TypeOK
  BY DEF NoticeInv, Typed, TypeOK, NoticeRows, ApprovalRows, ProcRows
<1> QED
  BY NoticesSafe, <1>1, PTL

\* The publication of a claim reaches the notification event service and has
\* its deliveries, or somebody still owes them, unless the intake failed, the
\* process died or another write landed in between.
\* (the comment at communications.service.ts:712-715)
THEOREM ClaimsAreAnnounced == Spec => []ClaimedIsAnnounced
<1>1. NoticeInv => ClaimedIsAnnounced
  BY DEF NoticeInv, Heard, ClaimedIsAnnounced
<1> QED
  BY NoticesSafe, <1>1, PTL

\* A cancelled notice sends nothing, unless the cancellation came into an
\* announcement or the archive gave back a cancellation that was undone.
\* (cancelNotice, communications.service.ts:786-812)
THEOREM CancellationsAreSilent == Spec => []CancelledIsSilent
<1>1. NoticeInv => CancelledIsSilent
  BY DEF NoticeInv, Silent, Withdrawal, CancelledIsSilent
<1> QED
  BY NoticesSafe, <1>1, PTL

\* No high-impact notice is published that nobody approved and no policy of the
\* app let through, unless an edit raised its priority under a handler at work.
\* (publishPreparedNotice, communications.service.ts:663-715)
THEOREM NoUnapprovedAlarm == Spec => []HighImpactWasApproved
<1>1. NoticeInv => HighImpactWasApproved
  BY DEF NoticeInv, Vetted, RowVetted, HighImpactWasApproved
<1> QED
  BY NoticesSafe, <1>1, PTL

=============================================================================
