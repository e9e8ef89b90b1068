---------------------------- MODULE AttendanceSync ----------------------------
(***************************************************************************)
(* The daily attendance of one class: direct submissions, offline drafts   *)
(* that are sent again until their receipt is decided, and the operations  *)
(* that act on the result (AttendanceService, the cutoff of                *)
(* M2AttendanceHardeningService).                                          *)
(*                                                                         *)
(* A request is a process of its own and may die between any two steps; a  *)
(* step is one statement or one database transaction.  What a request read *)
(* before its transaction is kept in seen and lease.  The sheet is unique  *)
(* per class and day, a receipt per draft, by unique indexes.              *)
(***************************************************************************)
EXTENDS Naturals, Sequences

CONSTANTS Drafts,       \* offline drafts, each with its clientSubmissionId
          Direct,       \* submissions without a receipt
          WebDrafts,    \* those of Direct sent by submitDraft
          Overriders,   \* submissions whose actor has attendance:override_lock
          None,         \* no submission
          Requests,     \* requests the API works on at the same time
          MaxLease,     \* bound: leases of a receipt
          MaxConflicts, \* bound: conflict rows
          MaxCrashes,   \* bound: requests that die
          Faults        \* which of FaultKinds may happen

\* slow: a request outlives its lease.  change: corrections, overrides and
\* approved leave.  review: conflicts are reviewed.  refuse: scope, fence or
\* roster changed.  cutoff, earlyCutoff: the cutoff is run after, before its hour.
FaultKinds == {"slow", "change", "review", "refuse", "cutoff", "earlyCutoff"}

ASSUME ConstantsAssumption ==
  /\ Drafts \cap Direct = {} /\ None \notin Drafts \cup Direct
  /\ WebDrafts \subseteq Direct /\ Overriders \subseteq Drafts \cup Direct
  /\ Faults \subseteq FaultKinds
  /\ MaxLease \in Nat \ {0} /\ MaxConflicts \in Nat /\ MaxCrashes \in Nat

VARIABLES
  session,   \* the AttendanceSession row of the class and day
  receipt,   \* receipt[d]: the AttendanceSyncSubmission row of draft d
  overdue,   \* overdue[d]: the lease of the receipt is older than its limit
  abandoned, \* abandoned[d]: the receipt is older than the abandonment limit
  conflict,  \* AttendanceConflict rows in order of creation
  proc,      \* proc[p]: the request in slot p
  reviewer,  \* the review in progress
  crashes    \* requests that died so far

vars == <<session, receipt, overdue, abandoned, conflict, proc, reviewer, crashes>>

Submissions == Drafts \cup Direct

\* by: the submission whose marks are official (submittedById and
\* sourceClientSubmissionId).  altered: leave, a correction or an override made
\* a record differ from those marks, or a mark was recorded without a submission.
Session == [st: {"none", "unmarked", "official"}, by: Submissions \cup {None},
            altered: BOOLEAN, flag: {"NONE", "FLAGGED", "REVIEWED"}, locked: BOOLEAN]

\* lease stands for processingLeaseAt; conflict 0: null
Receipt == [st: {"none", "PROCESSING", "ACCEPTED", "CONFLICTED", "REJECTED"},
            lease: 0..MaxLease, conflict: 0..MaxConflicts]

Conflict == [of: Submissions \cup {None}, reviewed: BOOLEAN]

Idle == [pc |-> "idle"]
Working == {"read", "submit", "race", "flag", "readback", "link", "complete", "refuse"}
Places == Working \cup {"reserve", "reconcile", "confirm", "renew"}
Request == [pc: Places, sub: Submissions, lease: 0..MaxLease,
            seen: {"none", "unmarked", "official"}, conflict: 0..MaxConflicts]
Review == [pc: {"receipts", "session", "override"}, conflict: 0..MaxConflicts,
           accept: BOOLEAN]

TypeOK ==
  /\ session \in Session
  /\ receipt \in [Drafts -> Receipt]
  /\ overdue \in [Drafts -> BOOLEAN] /\ abandoned \in [Drafts -> BOOLEAN]
  /\ conflict \in Seq(Conflict)
  /\ proc \in [Requests -> {Idle} \cup Request]
  /\ reviewer \in {Idle} \cup Review
  /\ crashes \in 0..MaxCrashes

-----------------------------------------------------------------------------
(* Steps of a request *)

Decided(d) == receipt[d].st \notin {"none", "PROCESSING"}

Goto(p, pc) == proc' = [proc EXCEPT ![p].pc = pc]
Answer(p) == proc' = [proc EXCEPT ![p] = Idle]
Start(p, s, pc, lease) ==
  proc' = [proc EXCEPT ![p] = [pc |-> pc, sub |-> s, lease |-> lease,
                               seen |-> "none", conflict |-> 0]]

\* The where-clause of every write to a receipt under its lease
\* Seeded fault: the lease and the status are not compared
HoldsLeaseAlways(p) == TRUE
HoldsLease(p) == LET d == proc[p].sub
                 IN  receipt[d].st = "PROCESSING" /\ receipt[d].lease = proc[p].lease

\* replayAttendanceSyncSubmission: a decided receipt and one under a lease
\* are answered; an overdue one is reconciled
Replay(p, d) ==
  IF receipt[d].st = "PROCESSING" /\ overdue[d]
  THEN Start(p, d, "reconcile", receipt[d].lease)
  ELSE Answer(p)

\* syncAttendance
ReceiveDraft(p, d) ==
  /\ proc[p] = Idle
  /\ IF receipt[d].st = "none" THEN Start(p, d, "reserve", 0) ELSE Replay(p, d)
  /\ UNCHANGED <<session, receipt, overdue, abandoned, conflict, reviewer, crashes>>

\* The insert of the receipt; the loser of the unique index replays
Reserve(p) ==
  /\ proc[p].pc = "reserve"
  /\ LET d == proc[p].sub
     IN  IF receipt[d].st = "none"
         THEN /\ receipt' = [receipt EXCEPT ![d] = [st |-> "PROCESSING", lease |-> 1,
                                                    conflict |-> 0]]
              /\ Start(p, d, "read", 1)
         ELSE Replay(p, d) /\ UNCHANGED receipt
  /\ UNCHANGED <<session, overdue, abandoned, conflict, reviewer, crashes>>

\* submitAttendance by POST, or submitDraft
ReceiveDirect(p, s) ==
  /\ proc[p] = Idle
  /\ Start(p, s, "read", 0)
  /\ UNCHANGED <<session, receipt, overdue, abandoned, conflict, reviewer, crashes>>

Refusal(p) == IF proc[p].sub \in Drafts THEN Goto(p, "refuse") ELSE Answer(p)

\* submitAttendance up to its transaction: checks on what is read now
ReadSession(p) ==
  /\ proc[p].pc = "read"
  /\ LET s == proc[p].sub
         shut == /\ s \notin Overriders
                 /\ \/ session.st # "none" /\ session.locked
                    \/ session.st = "official" /\ s \in Direct \ WebDrafts
     IN  \/ (shut \/ "refuse" \in Faults) /\ Refusal(p)
         \/ ~shut /\ proc' = [proc EXCEPT ![p].pc = "submit", ![p].seen = session.st]
  /\ UNCHANGED <<session, receipt, overdue, abandoned, conflict, reviewer, crashes>>

\* Approved leave changes a mark the submission left at its default
Official(s) == {[st |-> "official", by |-> s, altered |-> b, flag |-> "NONE",
                 locked |-> FALSE] : b \in IF "change" \in Faults THEN BOOLEAN ELSE {FALSE}}

Preserved(s) == Append(conflict, [of |-> s, reviewed |-> FALSE])

\* The transaction.  A sheet read as submitted is left alone and the
\* submission kept as a conflict; one read as unmarked is overwritten by id;
\* the insert may meet a sheet created meanwhile (P2002).
\* Seeded fault: an official sheet is overwritten
Overwrites(p) == proc[p].seen \in {"unmarked", "official"}
Fills(p) == proc[p].seen = "unmarked"

Submit(p) ==
  /\ proc[p].pc = "submit"
  /\ LET s == proc[p].sub
         done == IF s \in Drafts THEN Goto(p, "complete") ELSE Answer(p)
     IN  \/ /\ Fills(p) \/ (proc[p].seen = "none" /\ session.st = "none")
            /\ session' \in Official(s)
            /\ done
            /\ UNCHANGED conflict
         \/ /\ proc[p].seen = "none" /\ session.st # "none"
            /\ Goto(p, "race")
            /\ UNCHANGED <<session, conflict>>
         \/ /\ proc[p].seen = "official" /\ ~Fills(p)
            /\ Len(conflict) < MaxConflicts
            /\ conflict' = Preserved(s)
            /\ session' = [session EXCEPT !.flag = "FLAGGED"]
            /\ IF s \in Drafts THEN Goto(p, "link") ELSE Answer(p)
  /\ UNCHANGED <<receipt, overdue, abandoned, reviewer, crashes>>

\* The handler of P2002: conflict row, flag, and the sheet read back
\* Seeded fault: only the flag is set
KeptNot(s) == conflict
Kept(s) == Preserved(s)

RaceConflict(p) ==
  /\ proc[p].pc = "race"
  /\ Len(conflict) < MaxConflicts
  /\ conflict' = Kept(proc[p].sub)
  /\ Goto(p, "flag")
  /\ UNCHANGED <<session, receipt, overdue, abandoned, reviewer, crashes>>

RaceFlag(p) ==
  /\ proc[p].pc = "flag"
  /\ session' = [session EXCEPT !.flag = "FLAGGED"]
  /\ IF proc[p].sub \in Drafts THEN Goto(p, "readback") ELSE Answer(p)
  /\ UNCHANGED <<receipt, overdue, abandoned, conflict, reviewer, crashes>>

RaceReadBack(p) ==
  /\ proc[p].pc = "readback"
  /\ Goto(p, IF session.flag = "FLAGGED" THEN "link" ELSE "complete")
  /\ UNCHANGED <<session, receipt, overdue, abandoned, conflict, reviewer, crashes>>

\* processAttendanceSyncReservation: the latest conflict of the sheet
LinkConflict(p) ==
  /\ proc[p].pc = "link"
  /\ proc' = [proc EXCEPT ![p].pc = "complete", ![p].conflict = Len(conflict)]
  /\ UNCHANGED <<session, receipt, overdue, abandoned, conflict, reviewer, crashes>>

\* A write to the receipt under the lease; without it the answer is a 503
Settle(p, st, c) ==
  /\ Answer(p)
  /\ LET d == proc[p].sub
     IN  receipt' = IF HoldsLease(p)
                    THEN [receipt EXCEPT ![d].st = st, ![d].conflict = c] ELSE receipt
  /\ UNCHANGED <<session, overdue, abandoned, conflict, reviewer, crashes>>

\* Seeded fault: the status of the conflict is taken for that of the receipt
OutcomeOfFlag(c) == IF c = 0 THEN "ACCEPTED" ELSE "FLAGGED"
Outcome(c) == IF c = 0 THEN "ACCEPTED" ELSE "CONFLICTED"

Complete(p) ==
  /\ proc[p].pc = "complete"
  /\ Settle(p, Outcome(proc[p].conflict), proc[p].conflict)

Refuse(p) == proc[p].pc = "refuse" /\ Settle(p, "REJECTED", 0)

-----------------------------------------------------------------------------
(* reconcileAttendanceSyncReservation *)

\* isMatchingOfficialAttendanceSession, by the same actor and submission
\* Seeded fault: the submission is not compared
MatchesAnyOfficial(d) == session.st = "official" /\ ~session.altered
\* Seeded fault: the official sheet is not consulted
MatchesNever(d) == FALSE
MatchesOfficial(d) == session.st = "official" /\ session.by = d /\ ~session.altered

\* Seeded fault: a draft is sent again only where the class has a sheet
MayRenewWithSheet(d) == session.st # "none"
MayRenew(d) == session.st # "none" \/ abandoned[d]

Reconcile(p) ==
  /\ proc[p].pc = "reconcile"
  /\ LET d == proc[p].sub
     IN  \/ MatchesOfficial(d) /\ Goto(p, "confirm")
         \/ ~MatchesOfficial(d) /\ MayRenew(d) /\ Goto(p, "renew")
         \/ ~MatchesOfficial(d) /\ ~MayRenew(d) /\ Answer(p)  \* 503, payload marked
  /\ UNCHANGED <<session, receipt, overdue, abandoned, conflict, reviewer, crashes>>

Confirm(p) == proc[p].pc = "confirm" /\ Settle(p, "ACCEPTED", 0)

Renew(p) ==
  /\ proc[p].pc = "renew"
  /\ LET d == proc[p].sub
         lease == proc[p].lease + 1
     IN  IF HoldsLease(p)
         THEN /\ receipt' = [receipt EXCEPT ![d].lease = lease]
              /\ overdue' = [overdue EXCEPT ![d] = FALSE]
              /\ Start(p, d, "read", lease)
         ELSE Answer(p) /\ UNCHANGED <<receipt, overdue>>
  /\ UNCHANGED <<session, abandoned, conflict, reviewer, crashes>>

RequestStep(p) ==
  \/ Reserve(p) \/ ReadSession(p) \/ Submit(p)
  \/ RaceConflict(p) \/ RaceFlag(p) \/ RaceReadBack(p) \/ LinkConflict(p)
  \/ Complete(p) \/ Refuse(p)
  \/ Reconcile(p) \/ Confirm(p) \/ Renew(p)

\* The process dies, or an error of the database ends the request with a 503
Crash(p) ==
  /\ proc[p] # Idle
  /\ crashes < MaxCrashes
  /\ crashes' = crashes + 1
  /\ Answer(p)
  /\ UNCHANGED <<session, receipt, overdue, abandoned, conflict, reviewer>>

-----------------------------------------------------------------------------
(* Reviewers *)

\* reviewConflict: the conflict, the receipts linked to it, the sheet
ReviewConflict(c, accept) ==
  /\ "review" \in Faults
  /\ reviewer = Idle
  /\ conflict' = [conflict EXCEPT ![c].reviewed = TRUE]
  /\ reviewer' = [pc |-> "receipts", conflict |-> c, accept |-> accept]
  /\ UNCHANGED <<session, receipt, overdue, abandoned, proc, crashes>>

ReviewReceipts ==
  /\ reviewer.pc = "receipts"
  /\ receipt' = [d \in Drafts |->
                   IF receipt[d].conflict = reviewer.conflict
                   THEN [receipt[d] EXCEPT !.st = IF reviewer.accept THEN "ACCEPTED" ELSE "REJECTED"]
                   ELSE receipt[d]]
  /\ reviewer' = [reviewer EXCEPT !.pc = "session"]
  /\ UNCHANGED <<session, overdue, abandoned, conflict, proc, crashes>>

ReviewSession ==
  /\ reviewer.pc = "session"
  /\ session' = [session EXCEPT !.flag = "REVIEWED"]
  /\ reviewer' = Idle
  /\ UNCHANGED <<receipt, overdue, abandoned, conflict, proc, crashes>>

\* overrideLockedSession: recorded marks change; as the resolution of a conflict
\* it also accepts every receipt in conflict with the sheet
OverrideSession(resolves) ==
  /\ "change" \in Faults
  /\ reviewer = Idle
  /\ session.st = "official" \/ session.altered
  /\ Len(conflict) < MaxConflicts
  /\ \A c \in DOMAIN conflict : conflict[c].of # None  \* bound: one override
  /\ session' = [session EXCEPT !.altered = TRUE, !.flag = "REVIEWED"]
  /\ conflict' = Append(conflict, [of |-> None, reviewed |-> TRUE])
  /\ reviewer' = IF resolves THEN [pc |-> "override", conflict |-> 0, accept |-> TRUE] ELSE Idle
  /\ UNCHANGED <<receipt, overdue, abandoned, proc, crashes>>

OverrideReceipts ==
  /\ reviewer.pc = "override"
  /\ receipt' = [d \in Drafts |->
                   IF receipt[d].st = "CONFLICTED"
                   THEN [receipt[d] EXCEPT !.st = "ACCEPTED"] ELSE receipt[d]]
  /\ reviewer' = Idle
  /\ UNCHANGED <<session, overdue, abandoned, conflict, proc, crashes>>

\* approveCorrectionRequest, of an official record or for a day without a sheet
ApproveCorrection ==
  /\ "change" \in Faults
  /\ session' = IF session.st = "none"
                THEN [session EXCEPT !.st = "unmarked", !.altered = TRUE, !.locked = TRUE]
                ELSE [session EXCEPT !.altered = TRUE]
  /\ UNCHANGED <<receipt, overdue, abandoned, conflict, proc, reviewer, crashes>>

\* runAttendanceCutoff: an unmarked sheet, locked once its hour has passed
RunCutoff(passed) ==
  /\ IF passed THEN "cutoff" \in Faults ELSE "earlyCutoff" \in Faults
  /\ session.st = "none"
  /\ session' = [session EXCEPT !.st = "unmarked", !.flag = "FLAGGED", !.locked = passed]
  /\ UNCHANGED <<receipt, overdue, abandoned, conflict, proc, reviewer, crashes>>

-----------------------------------------------------------------------------
(* Time *)

LockPasses ==
  /\ session.st # "none" /\ ~session.locked
  /\ session' = [session EXCEPT !.locked = TRUE]
  /\ UNCHANGED <<receipt, overdue, abandoned, conflict, proc, reviewer, crashes>>

Alive(d, l) == \E p \in Requests : proc[p].pc \in Working /\ proc[p].sub = d /\ proc[p].lease = l

\* ATTENDANCE_SYNC_PROCESSING_LEASE_MS
LeaseExpires(d) ==
  /\ receipt[d].st = "PROCESSING" /\ ~overdue[d]
  /\ receipt[d].lease < MaxLease
  /\ "slow" \in Faults \/ ~Alive(d, receipt[d].lease)
  /\ overdue' = [overdue EXCEPT ![d] = TRUE]
  /\ UNCHANGED <<session, receipt, abandoned, conflict, proc, reviewer, crashes>>

\* ATTENDANCE_SYNC_ABANDONED_RETRY_MS since serverReceivedAt; no request lives that long
ReceiptAges(d) ==
  /\ receipt[d].st = "PROCESSING" /\ ~abandoned[d]
  /\ ~Alive(d, 1)
  /\ abandoned' = [abandoned EXCEPT ![d] = TRUE]
  /\ UNCHANGED <<session, receipt, overdue, conflict, proc, reviewer, crashes>>

-----------------------------------------------------------------------------
Init ==
  /\ session = [st |-> "none", by |-> None, altered |-> FALSE, flag |-> "NONE",
                locked |-> FALSE]
  /\ receipt = [d \in Drafts |-> [st |-> "none", lease |-> 0, conflict |-> 0]]
  /\ overdue = [d \in Drafts |-> FALSE]
  /\ abandoned = [d \in Drafts |-> FALSE]
  /\ conflict = <<>>
  /\ proc = [p \in Requests |-> Idle]
  /\ reviewer = Idle
  /\ crashes = 0

Next ==
  \/ \E p \in Requests :
       \/ \E d \in Drafts : ReceiveDraft(p, d)
       \/ \E s \in Direct : ReceiveDirect(p, s)
       \/ RequestStep(p)
       \/ Crash(p)
  \/ \E c \in DOMAIN conflict, b \in BOOLEAN : ReviewConflict(c, b)
  \/ ReviewReceipts \/ ReviewSession
  \/ \E b \in BOOLEAN : OverrideSession(b)
  \/ OverrideReceipts
  \/ ApproveCorrection
  \/ \E b \in BOOLEAN : RunCutoff(b)
  \/ LockPasses
  \/ \E d \in Drafts : LeaseExpires(d) \/ ReceiptAges(d)

Spec == Init /\ [][Next]_vars

\* The API works on the requests it took, time passes, and clients send a
\* draft again until its receipt is decided.
FairSpec ==
  /\ Spec
  /\ \A p \in Requests : WF_vars(RequestStep(p))
  /\ \A d \in Drafts : /\ WF_vars(LeaseExpires(d)) /\ WF_vars(ReceiptAges(d))
                       /\ SF_vars(\E p \in Requests : ReceiveDraft(p, d))

-----------------------------------------------------------------------------
(* Properties *)

\* No teacher is told that a draft arrived while its marks are nowhere: whatever
\* races, dies or is replayed, an accepted or conflicted draft is the official
\* sheet or is kept as a conflict for review.
AnsweredDraftsAreKept ==
  \A d \in Drafts :
    receipt[d].st \in {"ACCEPTED", "CONFLICTED"} =>
      session.by = d \/ \E c \in DOMAIN conflict : conflict[c].of = d

\* ACCEPTED without a conflict means that the draft is the official sheet,
\* unless a reviewer acted on the sheet meanwhile: no reconciliation takes
\* another submission's sheet for its own.
AcceptedIsOfficial ==
  \A d \in Drafts :
    receipt[d].st = "ACCEPTED" /\ receipt[d].conflict = 0 =>
      session.by = d \/ \E c \in DOMAIN conflict : conflict[c].reviewed

\* A draft refused for good is not the official sheet: a retry decides only
\* when the first request can no longer commit, and recognises what it
\* committed.  (A sheet that leave, a correction or an override changed is not
\* recognised: its draft is sent again and may be refused.)
RejectedIsNotOfficial ==
  \A d \in Drafts :
    receipt[d].st = "REJECTED" /\ receipt[d].conflict = 0 /\ session.by = d =>
      session.altered

\* A retry does not conflict with its own earlier success: only if leave, a
\* correction or an override changed the sheet it finds it different.
SelfConflictOnlyAfterChange ==
  \A c \in DOMAIN conflict :
    conflict[c].of \in Drafts /\ session.by = conflict[c].of => session.altered

\* A decided receipt without a conflict is final: no late request of an
\* earlier lease replaces the answer the client got.
DecidedReceiptIsFinal ==
  [][\A d \in Drafts : Decided(d) /\ receipt[d].conflict = 0 => receipt'[d] = receipt[d]]_vars

\* 'Once submitted, attendance is immutable through ordinary marking and
\* offline replay': an official sheet keeps its submission.
OfficialIsImmutable ==
  [][session.st = "official" => session'.by = session.by]_vars

\* Every draft under processing is decided, although requests die at the worst
\* moment, as long as its client sends it again.
DraftsAreDecided ==
  \A d \in Drafts : (receipt[d].st = "PROCESSING") ~> Decided(d)
=============================================================================
