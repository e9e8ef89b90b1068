-------------------------- MODULE AttendanceSyncProofs --------------------------
(* Theorems about AttendanceSync, for any submissions, requests and bounds. *)
EXTENDS AttendanceSync, SequenceTheorems, TLAPS

Procs == [Requests -> {Idle} \cup Request]

\* A request that goes on keeps what it carries.
LEMMA Goes ==
  ASSUME proc \in Procs, NEW p \in Requests, proc[p].pc # "idle",
         NEW pc \in Places, Goto(p, pc)
  PROVE  /\ proc' \in Procs
         /\ proc[p] \in Request /\ proc'[p] = [proc[p] EXCEPT !.pc = pc]
         /\ proc'[p] \in Request
         /\ \A q \in Requests \ {p} : proc'[q] = proc[q]
<1>1. proc[p] \in Request
  BY DEF Procs, Idle
<1>2. proc'[p] = [proc[p] EXCEPT !.pc = pc] /\ \A q \in Requests \ {p} : proc'[q] = proc[q]
  BY DEF Goto, Procs
<1>3. [proc[p] EXCEPT !.pc = pc] \in Request
  BY <1>1 DEF Request
<1> QED BY <1>1, <1>2, <1>3 DEF Goto, Procs

\* A slot that answers is free.
LEMMA Answers ==
  ASSUME proc \in Procs, NEW p \in Requests, Answer(p)
  PROVE  /\ proc' \in Procs /\ proc'[p] = Idle
         /\ \A q \in Requests \ {p} : proc'[q] = proc[q]
BY DEF Answer, Procs

\* A slot that takes a submission carries it.
LEMMA Starts ==
  ASSUME proc \in Procs, NEW p \in Requests, NEW s \in Submissions, NEW pc \in Places,
         NEW l \in 0..MaxLease, Start(p, s, pc, l), MaxConflicts \in Nat
  PROVE  /\ proc' \in Procs
         /\ proc'[p] = [pc |-> pc, sub |-> s, lease |-> l, seen |-> "none", conflict |-> 0]
         /\ proc'[p] \in Request
         /\ \A q \in Requests \ {p} : proc'[q] = proc[q]
<1>1. [pc |-> pc, sub |-> s, lease |-> l, seen |-> "none", conflict |-> 0] \in Request
  BY DEF Request
<1> QED BY <1>1 DEF Start, Procs

\* What the types need: the bounds of leases and conflict rows, and that a request
\* that works on a receipt has one.
OfDrafts == {"reserve", "readback", "link", "complete", "refuse",
             "reconcile", "confirm", "renew"}
Carries(r) == /\ r.pc \in {"reconcile", "renew"} => r.lease < MaxLease
              /\ r.pc \in OfDrafts => r.sub \in Drafts

Limits ==
  /\ Len(conflict) <= MaxConflicts
  /\ \A d \in Drafts : overdue[d] => receipt[d].st # "none" /\ receipt[d].lease < MaxLease
  /\ \A p \in Requests : Carries(proc[p])

TypeInv == TypeOK /\ Limits

\* A conflict row is appended within its bound.
LEMMA ConflictAdded ==
  ASSUME TypeInv, NEW s \in Submissions \cup {None}, NEW b \in BOOLEAN,
         Len(conflict) < MaxConflicts, conflict' = Append(conflict, [of |-> s, reviewed |-> b])
  PROVE  /\ conflict' \in Seq(Conflict) /\ Len(conflict') = Len(conflict) + 1
         /\ Len(conflict') <= MaxConflicts
         /\ DOMAIN conflict \subseteq DOMAIN conflict'
         /\ \A c \in DOMAIN conflict : conflict'[c] = conflict[c]
         /\ Len(conflict') \in DOMAIN conflict' /\ conflict'[Len(conflict')].of = s
<1> DEFINE row == [of |-> s, reviewed |-> b]
<1>1. row \in Conflict /\ conflict \in Seq(Conflict)
  BY DEF TypeInv, TypeOK, Conflict
<1>2. conflict' = Append(conflict, row) /\ row.of = s
  OBVIOUS
<1>3. Len(conflict) \in Nat /\ DOMAIN conflict = 1..Len(conflict)
  BY <1>1, LenProperties
<1>4. MaxConflicts \in Nat
  BY ConstantsAssumption
<1> HIDE DEF row
<1>5. /\ conflict' \in Seq(Conflict) /\ Len(conflict') = Len(conflict) + 1
      /\ \A i \in 1..Len(conflict) : conflict'[i] = conflict[i]
      /\ conflict'[Len(conflict) + 1] = row
  BY <1>1, <1>2, AppendProperties
<1>6. DOMAIN conflict' = 1..Len(conflict')
  BY <1>5, LenProperties
<1> QED BY <1>2, <1>3, <1>4, <1>5, <1>6

\* Replaying a draft takes only an overdue receipt, whose lease may be renewed.
LEMMA Replays ==
  ASSUME TypeInv, NEW p \in Requests, NEW d \in Drafts, Replay(p, d)
  PROVE  /\ proc' \in Procs
         /\ \A q \in Requests \ {p} : proc'[q] = proc[q]
         /\ \/ proc'[p] = Idle
            \/ proc'[p] = [pc |-> "reconcile", sub |-> d, lease |-> receipt[d].lease,
                           seen |-> "none", conflict |-> 0] /\ receipt[d].lease < MaxLease
<1>1. proc \in Procs /\ receipt[d].lease \in 0..MaxLease /\ d \in Submissions
  BY DEF TypeInv, TypeOK, Procs, Receipt, Submissions
<1>2. MaxConflicts \in Nat /\ "reconcile" \in Places
  BY ConstantsAssumption DEF Places
<1>3. CASE receipt[d].st = "PROCESSING" /\ overdue[d]
  <2>1. Start(p, d, "reconcile", receipt[d].lease)
    BY <1>3 DEF Replay
  <2>2. receipt[d].lease < MaxLease
    BY <1>3 DEF TypeInv, Limits
  <2> QED BY <1>1, <1>2, <2>1, <2>2, Starts
<1>4. CASE ~(receipt[d].st = "PROCESSING" /\ overdue[d])
  BY <1>1, <1>4, Answers DEF Replay
<1> QED BY <1>3, <1>4

\* What the type of the procs and of the receipts says of one of them.
LEMMA RequestType ==
  ASSUME TypeInv, NEW p \in Requests, proc[p].pc # "idle"
  PROVE  /\ proc[p] \in Request /\ proc[p].sub \in Submissions
         /\ proc[p].lease \in 0..MaxLease /\ proc[p].conflict \in 0..MaxConflicts
BY DEF TypeInv, TypeOK, Idle, Request

\* A write under the lease replaces status and conflict of one receipt or nothing.
LEMMA Settles ==
  ASSUME TypeInv, NEW p \in Requests, proc[p].pc # "idle", proc[p].sub \in Drafts,
         NEW st \in {"ACCEPTED", "CONFLICTED", "REJECTED"}, NEW c \in 0..MaxConflicts,
         Settle(p, st, c)
  PROVE  /\ proc' \in Procs /\ proc'[p] = Idle
         /\ \A q \in Requests \ {p} : proc'[q] = proc[q]
         /\ receipt' \in [Drafts -> Receipt]
         /\ \A d \in Drafts :
              \/ receipt'[d] = receipt[d]
              \/ /\ receipt[d].st = "PROCESSING" /\ d = proc[p].sub
                 /\ receipt'[d].lease = receipt[d].lease
                 /\ receipt'[d].st = st /\ receipt'[d].conflict = c
<1>1. proc \in Procs /\ Answer(p) /\ receipt \in [Drafts -> Receipt]
  BY DEF TypeInv, TypeOK, Procs, Settle
<1>2. CASE HoldsLease(p)
  <2> DEFINE e == proc[p].sub
             r == [receipt[e] EXCEPT !.st = st, !.conflict = c]
  <2>1. receipt' = [receipt EXCEPT ![e] = r] /\ receipt[e].st = "PROCESSING"
    BY <1>1, <1>2 DEF Settle, HoldsLease
  <2>2. r \in Receipt /\ r.st = st /\ r.conflict = c /\ r.lease = receipt[e].lease
    BY <1>1 DEF Receipt
  <2> HIDE DEF r
  <2> QED BY <1>1, <2>1, <2>2, Answers
<1>3. CASE ~HoldsLease(p)
  BY <1>1, <1>3, Answers DEF Settle
<1> QED BY <1>2, <1>3

LEMMA TypeInit == Init => TypeInv
<1> SUFFICES ASSUME Init PROVE TypeInv
  OBVIOUS
<1> USE ConstantsAssumption
<1>1. session \in Session
  BY DEF Init, Session
<1>2. receipt \in [Drafts -> Receipt]
  BY DEF Init, Receipt
<1>3. proc \in [Requests -> {Idle} \cup Request]
  BY DEF Init
<1>4. conflict \in Seq(Conflict) /\ Len(conflict) = 0
  BY EmptySeq DEF Init
<1>5. Limits
  BY <1>4 DEF Limits, Carries, OfDrafts, Init, Idle
<1> QED BY <1>1, <1>2, <1>3, <1>4, <1>5 DEF TypeInv, TypeOK, Init

\* Every step keeps the types and the bounds.
LEMMA TypeStep == TypeInv /\ [Next]_vars => TypeInv'
<1> SUFFICES ASSUME TypeInv, [Next]_vars PROVE TypeInv'
  OBVIOUS
<1> USE ConstantsAssumption
<1>t. /\ session \in Session /\ receipt \in [Drafts -> Receipt]
      /\ overdue \in [Drafts -> BOOLEAN] /\ abandoned \in [Drafts -> BOOLEAN]
      /\ conflict \in Seq(Conflict) /\ proc \in Procs
      /\ reviewer \in {Idle} \cup Review /\ crashes \in 0..MaxCrashes
      /\ Len(conflict) \in Nat /\ DOMAIN conflict = 1..Len(conflict)
  BY LenProperties DEF TypeInv, TypeOK, Procs
<1> DEFINE Rest == /\ UNCHANGED <<overdue, abandoned, reviewer, crashes>>
                   /\ session' \in Session
           Rows == \/ UNCHANGED conflict
                   \/ \E s \in Submissions \cup {None} :
                        /\ Len(conflict) < MaxConflicts
                        /\ conflict' = Append(conflict, [of |-> s, reviewed |-> FALSE])
           Moves == \E p \in Requests :
                      /\ proc' \in Procs
                      /\ \A q \in Requests \ {p} : proc'[q] = proc[q]
                      /\ Carries(proc'[p])
\* A step of a request
<1>1. ASSUME Rest, Rows, Moves, receipt' \in [Drafts -> Receipt],
             \A d \in Drafts : overdue[d] => receipt'[d].st # "none" /\ receipt'[d].lease < MaxLease
      PROVE  TypeInv'
  <2>1. conflict' \in Seq(Conflict) /\ Len(conflict') <= MaxConflicts
    BY <1>1, <1>t, ConflictAdded DEF TypeInv, Limits
  <2>2. ASSUME NEW q \in Requests PROVE Carries(proc'[q])
    BY <1>1 DEF TypeInv, Limits
  <2>3. Limits'
    BY <1>1, <2>1, <2>2 DEF Limits
  <2>4. TypeOK'
    BY <1>1, <1>t, <2>1 DEF TypeOK, Procs
  <2> QED BY <2>3, <2>4 DEF TypeInv
<1>s. ASSUME NEW p \in Requests, proc[p].pc # "idle", NEW pc \in Places, Goto(p, pc),
             pc \in {"reconcile", "renew"} => proc[p].pc = "reconcile",
             pc \in OfDrafts => proc[p].sub \in Drafts
      PROVE  Moves
  <2>1. /\ proc' \in Procs /\ proc[p] \in Request /\ proc'[p] = [proc[p] EXCEPT !.pc = pc]
        /\ \A q \in Requests \ {p} : proc'[q] = proc[q]
    BY <1>s, <1>t, Goes
  <2>2. proc'[p].pc = pc /\ proc'[p].lease = proc[p].lease /\ proc'[p].sub = proc[p].sub
    BY <2>1 DEF Request
  <2>3. Carries(proc[p])
    BY DEF TypeInv, Limits
  <2>4. Carries(proc'[p])
    BY <1>s, <2>2, <2>3 DEF Carries
  <2> QED BY <2>1, <2>4
<1>a. ASSUME NEW p \in Requests, Answer(p) PROVE Moves
  <2>1. Carries(Idle)
    BY DEF Carries, Idle, OfDrafts
  <2> QED BY <1>a, <1>t, <2>1, Answers
<1>b. ASSUME NEW p \in Requests, NEW s \in Submissions, NEW pc \in Places \ {"reconcile", "renew"},
             NEW l \in 0..MaxLease, Start(p, s, pc, l), pc \in OfDrafts => s \in Drafts
      PROVE  Moves
  <2>1. /\ proc' \in Procs /\ \A q \in Requests \ {p} : proc'[q] = proc[q]
        /\ proc'[p] = [pc |-> pc, sub |-> s, lease |-> l, seen |-> "none", conflict |-> 0]
    BY <1>b, <1>t, Starts
  <2>2. Carries(proc'[p])
    BY <1>b, <2>1 DEF Carries
  <2> QED BY <2>1, <2>2
<1>c. ASSUME NEW p \in Requests, NEW d \in Drafts, Replay(p, d) PROVE Moves
  <2>1. PICK r \in {Idle, [pc |-> "reconcile", sub |-> d, lease |-> receipt[d].lease,
                           seen |-> "none", conflict |-> 0]} :
          proc'[p] = r /\ (r = Idle \/ receipt[d].lease < MaxLease)
    BY <1>c, Replays
  <2>2. Carries(r)
    BY <2>1 DEF Carries, OfDrafts, Idle
  <2> QED BY <1>c, <2>1, <2>2, Replays
<1>k. ASSUME UNCHANGED receipt
      PROVE  /\ receipt' \in [Drafts -> Receipt]
             /\ \A d \in Drafts : overdue[d] => receipt'[d].st # "none" /\ receipt'[d].lease < MaxLease
  BY <1>k, <1>t DEF TypeInv, Limits
<1>d. Drafts \subseteq Submissions /\ Direct \subseteq Submissions
  BY DEF Submissions
<1>2. ASSUME NEW p \in Requests, NEW d \in Drafts, ReceiveDraft(p, d) PROVE TypeInv'
  <2>1. Moves
    <3>1. CASE receipt[d].st = "none"
      <4>1. Start(p, d, "reserve", 0) /\ "reserve" \in Places \ {"reconcile", "renew"}
        BY <1>2, <3>1 DEF ReceiveDraft, Places
      <4> QED BY <4>1, <1>b, <1>d
    <3>2. CASE receipt[d].st # "none"
      BY <1>2, <3>2, <1>c DEF ReceiveDraft
    <3> QED BY <3>1, <3>2
  <2>2. Rest /\ Rows /\ UNCHANGED receipt
    BY <1>2, <1>t DEF ReceiveDraft
  <2> QED BY <2>1, <2>2, <1>k, <1>1
<1>3. ASSUME NEW p \in Requests, NEW s \in Direct, ReceiveDirect(p, s) PROVE TypeInv'
  <2>1. Moves
    <3>1. /\ Start(p, s, "read", 0) /\ "read" \in Places \ {"reconcile", "renew"}
          /\ "read" \notin OfDrafts
      BY <1>3 DEF ReceiveDirect, Places, Working, OfDrafts
    <3> QED BY <3>1, <1>b, <1>d
  <2>2. Rest /\ Rows /\ UNCHANGED receipt
    BY <1>3, <1>t DEF ReceiveDirect
  <2> QED BY <2>1, <2>2, <1>k, <1>1
<1>4. ASSUME NEW p \in Requests, Reserve(p) PROVE TypeInv'
  <2> DEFINE d == proc[p].sub
  <2>1. proc[p].pc = "reserve" /\ d \in Drafts
    BY <1>4 DEF Reserve, TypeInv, Limits, Carries, OfDrafts
  <2>2. Rest /\ Rows
    BY <1>4, <1>t DEF Reserve
  <2>3. CASE receipt[d].st = "none"
    <3>1. /\ receipt' = [receipt EXCEPT ![d] = [st |-> "PROCESSING", lease |-> 1, conflict |-> 0]]
          /\ Start(p, d, "read", 1) /\ "read" \in Places \ {"reconcile", "renew"}
      BY <1>4, <2>3 DEF Reserve, Places, Working
    <3>2. [st |-> "PROCESSING", lease |-> 1, conflict |-> 0] \in Receipt
      BY DEF Receipt
    <3>3. receipt' \in [Drafts -> Receipt] /\ \A e \in Drafts \ {d} : receipt'[e] = receipt[e]
      BY <1>t, <3>1, <3>2
    <3>4. ~overdue[d]
      BY <2>1, <2>3 DEF TypeInv, Limits
    <3>5. \A e \in Drafts : overdue[e] => receipt'[e].st # "none" /\ receipt'[e].lease < MaxLease
      BY <3>3, <3>4 DEF TypeInv, Limits
    <3>6. Moves
      BY <2>1, <3>1, <1>b, <1>d
    <3> QED BY <2>2, <3>3, <3>5, <3>6, <1>1
  <2>4. CASE receipt[d].st # "none"
    <3>1. Replay(p, d) /\ UNCHANGED receipt
      BY <1>4, <2>4 DEF Reserve
    <3> QED BY <2>1, <2>2, <3>1, <1>c, <1>k, <1>1
  <2> QED BY <2>3, <2>4
<1>m. ASSUME NEW p \in Requests, NEW r \in Request, Carries(r), proc' = [proc EXCEPT ![p] = r]
      PROVE  Moves
  BY <1>m, <1>t DEF Procs
<1>p. ASSUME NEW p \in Requests, proc[p].pc # "idle"
      PROVE  /\ proc[p] \in Request /\ proc[p].sub \in Submissions
             /\ proc[p].lease \in 0..MaxLease /\ proc[p].conflict \in 0..MaxConflicts
             /\ proc[p].sub \notin Drafts => proc[p].pc \notin OfDrafts
  BY <1>p, RequestType DEF TypeInv, Limits, Carries
<1>f. /\ Places = {"read", "submit", "race", "flag", "readback", "link", "complete", "refuse",
                   "reserve", "reconcile", "confirm", "renew"}
      /\ OfDrafts \subseteq Places
  BY DEF Places, Working, OfDrafts
<1>5. ASSUME NEW p \in Requests, ReadSession(p) PROVE TypeInv'
  <2>1. proc[p].pc = "read"
    BY <1>5 DEF ReadSession
  <2>2. Rest /\ Rows /\ UNCHANGED receipt
    BY <1>5, <1>t DEF ReadSession
  <2>3. CASE Refusal(p)
    <3>1. CASE proc[p].sub \in Drafts
      <4>1. Goto(p, "refuse")
        BY <2>3, <3>1 DEF Refusal
      <4> QED BY <4>1, <2>1, <2>2, <3>1, <1>f, <1>s, <1>k, <1>1
    <3>2. CASE proc[p].sub \notin Drafts
      BY <2>2, <2>3, <3>2, <1>a, <1>k, <1>1 DEF Refusal
    <3> QED BY <3>1, <3>2
  <2>4. CASE proc' = [proc EXCEPT ![p].pc = "submit", ![p].seen = session.st]
    <3> DEFINE r == [proc[p] EXCEPT !.pc = "submit", !.seen = session.st]
    <3>0. proc[p] \in Request /\ session.st \in {"none", "unmarked", "official"} /\ "submit" \in Places
      BY <2>1, <1>p, <1>t, <1>f DEF Session
    <3>1. r \in Request /\ r.pc = "submit"
      BY <3>0 DEF Request
    <3>2. Carries(r)
      BY <3>1 DEF Carries, OfDrafts
    <3>3. proc' = [proc EXCEPT ![p] = r]
      BY <2>4, <1>t DEF Procs
    <3> HIDE DEF r
    <3> QED BY <2>2, <3>1, <3>2, <3>3, <1>m, <1>k, <1>1
  <2> QED BY <1>5, <2>3, <2>4 DEF ReadSession
<1>6. ASSUME NEW p \in Requests, Submit(p) PROVE TypeInv'
  <2>1. proc[p].pc = "submit" /\ proc[p].sub \in Submissions
    BY <1>6, <1>p DEF Submit
  <2>2. UNCHANGED <<receipt, overdue, abandoned, reviewer, crashes>>
    BY <1>6 DEF Submit
  <2>3. session' \in Session
    <3>1. ASSUME NEW b \in BOOLEAN
          PROVE  [st |-> "official", by |-> proc[p].sub, altered |-> b, flag |-> "NONE",
                  locked |-> FALSE] \in Session
      BY <2>1 DEF Session
    <3>2. [session EXCEPT !.flag = "FLAGGED"] \in Session
      BY <1>t DEF Session
    <3>3. \/ session' \in Official(proc[p].sub)
          \/ session' = session
          \/ session' = [session EXCEPT !.flag = "FLAGGED"]
      BY <1>6 DEF Submit
    <3>4. CASE session' \in Official(proc[p].sub)
      BY <3>1, <3>4 DEF Official
    <3> QED BY <1>t, <3>2, <3>3, <3>4
  <2>4. Rows
    BY <1>6, <2>1 DEF Submit, Preserved
  <2>5. \/ Answer(p)
        \/ Goto(p, "race")
        \/ proc[p].sub \in Drafts /\ (Goto(p, "complete") \/ Goto(p, "link"))
    BY <1>6 DEF Submit
  <2>6. Moves
    <3>1. CASE Answer(p)
      BY <3>1, <1>a
    <3>2. CASE Goto(p, "race")
      BY <2>1, <3>2, <1>f, <1>s DEF OfDrafts
    <3>3. CASE proc[p].sub \in Drafts /\ Goto(p, "complete")
      BY <2>1, <3>3, <1>f, <1>s
    <3>4. CASE proc[p].sub \in Drafts /\ Goto(p, "link")
      BY <2>1, <3>4, <1>f, <1>s
    <3> QED BY <2>5, <3>1, <3>2, <3>3, <3>4
  <2> QED BY <2>2, <2>3, <2>4, <2>6, <1>k, <1>1
<1>7. ASSUME NEW p \in Requests, RaceConflict(p) \/ RaceFlag(p) \/ RaceReadBack(p)
      PROVE  TypeInv'
  <2>1. proc[p].pc \in {"race", "flag", "readback"} /\ proc[p].sub \in Submissions
    BY <1>7, <1>p DEF RaceConflict, RaceFlag, RaceReadBack
  <2>2. UNCHANGED <<receipt, overdue, abandoned, reviewer, crashes>> /\ session' \in Session
    BY <1>7, <1>t DEF RaceConflict, RaceFlag, RaceReadBack, Session
  <2>3. Rows
    BY <1>7, <2>1 DEF RaceConflict, RaceFlag, RaceReadBack, Kept, Preserved
  <2>4. \/ Answer(p)
        \/ Goto(p, "flag")
        \/ proc[p].sub \in Drafts /\ Goto(p, "readback")
        \/ proc[p].pc = "readback" /\ (Goto(p, "link") \/ Goto(p, "complete"))
    BY <1>7 DEF RaceConflict, RaceFlag, RaceReadBack
  <2>5. proc[p].pc = "readback" => proc[p].sub \in Drafts
    BY <2>1, <1>p DEF OfDrafts
  <2>6. Moves
    <3>1. CASE Answer(p)
      BY <3>1, <1>a
    <3>2. CASE Goto(p, "flag")
      BY <2>1, <3>2, <1>f, <1>s DEF OfDrafts
    <3>3. CASE proc[p].sub \in Drafts /\ Goto(p, "readback")
      BY <2>1, <3>3, <1>f, <1>s
    <3>4. CASE proc[p].pc = "readback" /\ Goto(p, "link")
      BY <2>1, <2>5, <3>4, <1>f, <1>s
    <3>5. CASE proc[p].pc = "readback" /\ Goto(p, "complete")
      BY <2>1, <2>5, <3>5, <1>f, <1>s
    <3> QED BY <2>4, <3>1, <3>2, <3>3, <3>4, <3>5
  <2> QED BY <2>2, <2>3, <2>6, <1>k, <1>1
<1>8. ASSUME NEW p \in Requests, LinkConflict(p) PROVE TypeInv'
  <2>1. proc[p].pc = "link" /\ proc[p] \in Request /\ proc[p].sub \in Drafts
    BY <1>8, <1>p DEF LinkConflict, OfDrafts
  <2>2. Rest /\ Rows /\ UNCHANGED receipt
    BY <1>8, <1>t DEF LinkConflict
  <2> DEFINE r == [proc[p] EXCEPT !.pc = "complete", !.conflict = Len(conflict)]
  <2>3. Len(conflict) \in 0..MaxConflicts
    BY <1>t DEF TypeInv, Limits
  <2>4. r \in Request /\ r.pc = "complete" /\ r.sub = proc[p].sub
    BY <2>1, <2>3, <1>f DEF Request
  <2>5. proc' = [proc EXCEPT ![p] = r]
    BY <1>8, <1>t DEF LinkConflict, Procs
  <2>6. Carries(r)
    BY <2>1, <2>4 DEF Carries
  <2> HIDE DEF r
  <2> QED BY <2>2, <2>4, <2>5, <2>6, <1>m, <1>k, <1>1
<1>9. ASSUME NEW p \in Requests, Complete(p) \/ Refuse(p) \/ Confirm(p) PROVE TypeInv'
  <2>1. proc[p].pc \in {"complete", "refuse", "confirm"}
    BY <1>9 DEF Complete, Refuse, Confirm
  <2>2. proc[p].sub \in Drafts /\ proc[p].conflict \in 0..MaxConflicts
    BY <2>1, <1>p DEF OfDrafts
  <2>3. PICK st \in {"ACCEPTED", "CONFLICTED", "REJECTED"}, c \in 0..MaxConflicts : Settle(p, st, c)
    BY <1>9, <2>2 DEF Complete, Refuse, Confirm, Outcome
  <2>4. /\ Answer(p) /\ UNCHANGED <<session, overdue, abandoned, conflict, reviewer, crashes>>
    BY <2>3 DEF Settle
  <2>5. /\ receipt' \in [Drafts -> Receipt]
        /\ \A d \in Drafts : \/ receipt'[d] = receipt[d]
                             \/ receipt'[d].st = st /\ receipt'[d].lease = receipt[d].lease
    BY <2>1, <2>2, <2>3, Settles
  <2>6. \A d \in Drafts : overdue[d] => receipt'[d].st # "none" /\ receipt'[d].lease < MaxLease
    BY <2>5 DEF TypeInv, Limits
  <2> QED BY <1>t, <2>4, <2>5, <2>6, <1>a, <1>1
<1>10. ASSUME NEW p \in Requests, Reconcile(p) PROVE TypeInv'
  <2>1. proc[p].pc = "reconcile"
    BY <1>10 DEF Reconcile
  <2>2. proc[p].sub \in Drafts
    BY <2>1, <1>p DEF OfDrafts
  <2>3. Rest /\ Rows /\ UNCHANGED receipt
    BY <1>10, <1>t DEF Reconcile
  <2>4. Goto(p, "confirm") \/ Goto(p, "renew") \/ Answer(p)
    BY <1>10 DEF Reconcile
  <2>5. Moves
    <3>1. CASE Goto(p, "confirm")
      BY <2>1, <2>2, <3>1, <1>f, <1>s
    <3>2. CASE Goto(p, "renew")
      BY <2>1, <2>2, <3>2, <1>f, <1>s
    <3> QED BY <2>4, <3>1, <3>2, <1>a
  <2> QED BY <2>3, <2>5, <1>k, <1>1
<1>11. ASSUME NEW p \in Requests, Renew(p) PROVE TypeInv'
  <2> DEFINE d == proc[p].sub
             lease == proc[p].lease + 1
  <2>1. proc[p].pc = "renew"
    BY <1>11 DEF Renew
  <2>2. d \in Drafts /\ proc[p].lease \in 0..MaxLease
    BY <2>1, <1>p DEF OfDrafts
  <2>3. proc[p].lease < MaxLease
    BY <2>1 DEF TypeInv, Limits, Carries
  <2>4. lease \in 0..MaxLease
    BY <2>2, <2>3
  <2>5. UNCHANGED <<session, abandoned, conflict, reviewer, crashes>>
    BY <1>11 DEF Renew
  <2>6. CASE HoldsLease(p)
    <3>1. /\ receipt' = [receipt EXCEPT ![d].lease = lease]
          /\ overdue' = [overdue EXCEPT ![d] = FALSE]
          /\ Start(p, d, "read", lease)
      BY <1>11, <2>6 DEF Renew
    <3> HIDE DEF lease
    <3>2. receipt' \in [Drafts -> Receipt] /\ \A e \in Drafts \ {d} : receipt'[e] = receipt[e]
      <4> DEFINE r == [receipt[d] EXCEPT !.lease = lease]
      <4>1. receipt' = [receipt EXCEPT ![d] = r]
        BY <3>1
      <4>2. receipt[d] \in Receipt
        BY <1>t, <2>2
      <4>3. r \in Receipt
        BY <2>4, <4>2 DEF Receipt
      <4> HIDE DEF r
      <4> QED BY <1>t, <2>2, <4>1, <4>3
    <3>3. overdue' \in [Drafts -> BOOLEAN] /\ \A e \in Drafts : overdue'[e] => overdue[e] /\ e # d
      BY <1>t, <2>2, <3>1
    <3>4. Moves
      BY <2>2, <2>4, <3>1, <1>b, <1>d, <1>f
    <3>5. \A q \in Requests : Carries(proc'[q])
      BY <3>4 DEF TypeInv, Limits
    <3>6. Limits'
      BY <2>5, <3>2, <3>3, <3>5 DEF TypeInv, Limits
    <3>7. TypeOK'
      BY <1>t, <2>5, <3>2, <3>3, <3>4 DEF TypeOK, Procs
    <3> QED BY <3>6, <3>7 DEF TypeInv
  <2>7. CASE ~HoldsLease(p)
    <3>1. Answer(p) /\ UNCHANGED <<receipt, overdue>>
      BY <1>11, <2>7 DEF Renew
    <3> QED BY <1>t, <2>5, <3>1, <1>a, <1>k, <1>1
  <2> QED BY <2>6, <2>7
<1>12. ASSUME NEW p \in Requests, Crash(p) PROVE TypeInv'
  <2>1. \A q \in Requests : Carries(proc'[q])
    BY <1>12, <1>a DEF Crash, TypeInv, Limits
  <2>2. proc' \in Procs
    BY <1>12, <1>a DEF Crash
  <2>3. UNCHANGED <<session, receipt, overdue, abandoned, conflict, reviewer>>
    BY <1>12 DEF Crash
  <2>4. crashes' \in 0..MaxCrashes
    BY <1>12, <1>t DEF Crash
  <2>5. Limits'
    BY <2>1, <2>3 DEF TypeInv, Limits
  <2>6. TypeOK'
    BY <1>t, <2>2, <2>3, <2>4 DEF TypeOK, Procs
  <2> QED BY <2>5, <2>6 DEF TypeInv
\* A step of a reviewer or of the clock
<1>13. ASSUME UNCHANGED <<overdue, proc, crashes>>,
              session' \in Session, receipt' \in [Drafts -> Receipt],
              abandoned' \in [Drafts -> BOOLEAN], reviewer' \in {Idle} \cup Review,
              conflict' \in Seq(Conflict), Len(conflict') <= MaxConflicts,
              \A d \in Drafts : receipt[d].st # "none" =>
                receipt'[d].st # "none" /\ receipt'[d].lease = receipt[d].lease
       PROVE  TypeInv'
  <2>1. Limits'
    BY <1>13 DEF TypeInv, Limits
  <2>2. TypeOK'
    BY <1>13, <1>t DEF TypeOK, Procs
  <2> QED BY <2>1, <2>2 DEF TypeInv
<1>14. Len(conflict) <= MaxConflicts
  BY DEF TypeInv, Limits
<1>15. ASSUME NEW c \in DOMAIN conflict, NEW b \in BOOLEAN, ReviewConflict(c, b) PROVE TypeInv'
  <2>1. conflict' \in Seq(Conflict) /\ Len(conflict') = Len(conflict)
    <3> DEFINE r == [conflict[c] EXCEPT !.reviewed = TRUE]
    <3>1. conflict[c] \in Conflict
      BY <1>t, ElementOfSeq
    <3>2. r \in Conflict
      BY <3>1 DEF Conflict
    <3>3. conflict' = [conflict EXCEPT ![c] = r]
      BY <1>15 DEF ReviewConflict
    <3> HIDE DEF r
    <3> QED BY <1>t, <3>2, <3>3, ExceptSeq
  <2>2. c \in 0..MaxConflicts
    BY <1>t, <1>14
  <2>3. reviewer' \in Review
    BY <1>15, <2>2 DEF ReviewConflict, Review
  <2>4. UNCHANGED <<session, receipt, overdue, abandoned, proc, crashes>>
    BY <1>15 DEF ReviewConflict
  <2> QED BY <1>t, <1>13, <1>14, <2>1, <2>3, <2>4
<1>16. ASSUME ReviewReceipts \/ OverrideReceipts PROVE TypeInv'
  <2>1. reviewer \in Review
    BY <1>16, <1>t DEF ReviewReceipts, OverrideReceipts, Idle
  <2>2. reviewer' \in {Idle} \cup Review
    BY <1>16, <2>1 DEF ReviewReceipts, OverrideReceipts, Review
  <2>3. \A d \in Drafts : \/ receipt'[d] = receipt[d]
                          \/ receipt'[d] = [receipt[d] EXCEPT !.st = "ACCEPTED"]
                          \/ receipt'[d] = [receipt[d] EXCEPT !.st = "REJECTED"]
    BY <1>16 DEF ReviewReceipts, OverrideReceipts
  <2>4. ASSUME NEW d \in Drafts
        PROVE  /\ receipt'[d] \in Receipt
               /\ receipt'[d].lease = receipt[d].lease
               /\ receipt[d].st # "none" => receipt'[d].st # "none"
    <3>1. receipt[d] \in Receipt
      BY <1>t, <2>4
    <3>2. CASE receipt'[d] = receipt[d]
      BY <3>1, <3>2
    <3>3. CASE receipt'[d] = [receipt[d] EXCEPT !.st = "ACCEPTED"]
      BY <3>1, <3>3 DEF Receipt
    <3>4. CASE receipt'[d] = [receipt[d] EXCEPT !.st = "REJECTED"]
      BY <3>1, <3>4 DEF Receipt
    <3> QED BY <2>3, <2>4, <3>2, <3>3, <3>4
  <2>5. DOMAIN receipt' = Drafts /\ receipt' = [d \in Drafts |-> receipt'[d]]
    BY <1>16 DEF ReviewReceipts, OverrideReceipts
  <2>6. receipt' \in [Drafts -> Receipt]
    BY <2>4, <2>5
  <2>7. UNCHANGED <<session, overdue, abandoned, conflict, proc, crashes>>
    BY <1>16 DEF ReviewReceipts, OverrideReceipts
  <2> QED BY <1>t, <1>13, <1>14, <2>2, <2>4, <2>6, <2>7
<1>17. ASSUME ReviewSession PROVE TypeInv'
  <2>1. session' \in Session
    BY <1>17, <1>t DEF ReviewSession, Session
  <2> QED BY <1>17, <1>t, <1>13, <1>14, <2>1 DEF ReviewSession
<1>18. ASSUME NEW b \in BOOLEAN, OverrideSession(b) PROVE TypeInv'
  <2>1. session' \in Session
    BY <1>18, <1>t DEF OverrideSession, Session
  <2>2. conflict' \in Seq(Conflict) /\ Len(conflict') <= MaxConflicts
    BY <1>18, ConflictAdded DEF OverrideSession
  <2>3. [pc |-> "override", conflict |-> 0, accept |-> TRUE] \in Review
    BY DEF Review
  <2>4. reviewer' \in {Idle} \cup Review
    BY <1>18, <2>3 DEF OverrideSession
  <2>5. UNCHANGED <<receipt, overdue, abandoned, proc, crashes>>
    BY <1>18 DEF OverrideSession
  <2> QED BY <1>t, <1>13, <2>1, <2>2, <2>4, <2>5
<1>19. ASSUME ApproveCorrection \/ (\E b \in BOOLEAN : RunCutoff(b)) \/ LockPasses PROVE TypeInv'
  <2>1. session' \in Session
    <3>1. session \in Session
      BY <1>t
    <3>2. CASE ApproveCorrection
      BY <3>1, <3>2 DEF ApproveCorrection, Session
    <3>3. ASSUME NEW b \in BOOLEAN, RunCutoff(b) PROVE session' \in Session
      BY <3>1, <3>3 DEF RunCutoff, Session
    <3>4. CASE LockPasses
      BY <3>1, <3>4 DEF LockPasses, Session
    <3> QED BY <1>19, <3>2, <3>3, <3>4
  <2>2. UNCHANGED <<receipt, overdue, abandoned, conflict, proc, reviewer, crashes>>
    BY <1>19 DEF ApproveCorrection, RunCutoff, LockPasses
  <2> QED BY <1>t, <1>13, <1>14, <2>1, <2>2
<1>20. ASSUME NEW d \in Drafts, ReceiptAges(d) PROVE TypeInv'
  <2>1. abandoned' \in [Drafts -> BOOLEAN]
    BY <1>20, <1>t DEF ReceiptAges
  <2>2. UNCHANGED <<session, receipt, overdue, conflict, proc, reviewer, crashes>>
    BY <1>20 DEF ReceiptAges
  <2> QED BY <1>t, <1>13, <1>14, <2>1, <2>2
<1>21. ASSUME NEW d \in Drafts, LeaseExpires(d) PROVE TypeInv'
  <2>1. /\ overdue' \in [Drafts -> BOOLEAN] /\ receipt[d].st = "PROCESSING"
        /\ receipt[d].lease < MaxLease
        /\ \A e \in Drafts : overdue'[e] => overdue[e] \/ e = d
    BY <1>21, <1>t DEF LeaseExpires
  <2>2. UNCHANGED <<session, receipt, abandoned, conflict, proc, reviewer, crashes>>
    BY <1>21 DEF LeaseExpires
  <2>3. Limits'
    BY <2>1, <2>2 DEF TypeInv, Limits
  <2>4. TypeOK'
    BY <1>t, <2>1, <2>2 DEF TypeOK, Procs
  <2> QED BY <2>3, <2>4 DEF TypeInv
<1>22. CASE UNCHANGED vars
  BY <1>22, <1>t, <1>13, <1>14 DEF vars
<1>23. CASE \E p \in Requests : RequestStep(p)
  BY <1>23, <1>4, <1>5, <1>6, <1>7, <1>8, <1>9, <1>10, <1>11, Zenon DEF RequestStep
<1> QED
  BY <1>2, <1>3, <1>12, <1>15, <1>16, <1>17, <1>18, <1>19, <1>20, <1>21, <1>22, <1>23, Zenon DEF Next

\* For any drafts, requests and bounds, every reachable state has its type.
THEOREM TypeCorrect == Spec => []TypeOK
<1>1. TypeInv => TypeOK
  BY DEF TypeInv
<1> QED BY <1>1, TypeInit, TypeStep, PTL DEF Spec

-----------------------------------------------------------------------------
(* What a step may do to the conflict rows and to a receipt *)

RowsStay == /\ DOMAIN conflict \subseteq DOMAIN conflict'
            /\ \A c \in DOMAIN conflict : conflict'[c].of = conflict[c].of

\* Conflict rows are added, never lost, and never handed to another submission.
LEMMA RowsStep == TypeInv /\ [Next]_vars => RowsStay
<1> SUFFICES ASSUME TypeInv, [Next]_vars PROVE RowsStay
  OBVIOUS
<1>t. conflict \in Seq(Conflict) /\ None \in Submissions \cup {None}
  BY DEF TypeInv, TypeOK
<1>u. ASSUME UNCHANGED conflict PROVE RowsStay
  BY <1>u DEF RowsStay
<1>a. ASSUME NEW s \in Submissions \cup {None}, NEW b \in BOOLEAN, Len(conflict) < MaxConflicts,
             conflict' = Append(conflict, [of |-> s, reviewed |-> b])
      PROVE  RowsStay
  BY <1>a, ConflictAdded DEF RowsStay
<1>1. ASSUME NEW p \in Requests, \/ \E d \in Drafts : ReceiveDraft(p, d)
                                 \/ \E s \in Direct : ReceiveDirect(p, s)
                                 \/ Crash(p)
      PROVE  RowsStay
  BY <1>1, <1>u DEF ReceiveDraft, ReceiveDirect, Crash
<1>2. ASSUME NEW p \in Requests, \/ Reserve(p) \/ ReadSession(p) \/ RaceFlag(p)
                                 \/ RaceReadBack(p) \/ LinkConflict(p)
      PROVE  RowsStay
  BY <1>2, <1>u DEF Reserve, ReadSession, RaceFlag, RaceReadBack, LinkConflict
<1>3. ASSUME NEW p \in Requests, \/ Complete(p) \/ Refuse(p) \/ Reconcile(p) \/ Confirm(p) \/ Renew(p)
      PROVE  RowsStay
  BY <1>3, <1>u DEF Complete, Refuse, Reconcile, Confirm, Renew, Settle
<1>4. ASSUME NEW p \in Requests, Submit(p) \/ RaceConflict(p) PROVE RowsStay
  <2>1. proc[p].sub \in Submissions
    BY <1>4, RequestType DEF Submit, RaceConflict
  <2>2. \/ UNCHANGED conflict
        \/ Len(conflict) < MaxConflicts /\ conflict' = Preserved(proc[p].sub)
    BY <1>4 DEF Submit, RaceConflict, Kept
  <2> QED BY <2>1, <2>2, <1>u, <1>a DEF Preserved
<1>5. ASSUME NEW c \in DOMAIN conflict, NEW b \in BOOLEAN, ReviewConflict(c, b) PROVE RowsStay
  <2>1. conflict \in [1..Len(conflict) -> Conflict] /\ c \in 1..Len(conflict)
    BY <1>t, <1>5, LenProperties, SeqDef
  <2>2. conflict[c] \in Conflict
    BY <2>1
  <2>3. /\ conflict' = [conflict EXCEPT ![c] = [conflict[c] EXCEPT !.reviewed = TRUE]]
        /\ [conflict[c] EXCEPT !.reviewed = TRUE].of = conflict[c].of
    BY <1>5, <2>2 DEF ReviewConflict, Conflict
  <2> QED BY <2>1, <2>3 DEF RowsStay
<1>6. ASSUME NEW b \in BOOLEAN, OverrideSession(b) PROVE RowsStay
  BY <1>6, <1>a, <1>t DEF OverrideSession
<1>7. CASE \/ ReviewReceipts \/ ReviewSession \/ OverrideReceipts \/ ApproveCorrection
           \/ (\E b \in BOOLEAN : RunCutoff(b)) \/ LockPasses
           \/ (\E d \in Drafts : LeaseExpires(d) \/ ReceiptAges(d))
  BY <1>7, <1>u DEF ReviewReceipts, ReviewSession, OverrideReceipts, ApproveCorrection,
                    RunCutoff, LockPasses, LeaseExpires, ReceiptAges
<1>8. CASE UNCHANGED vars
  BY <1>8, <1>u DEF vars
<1>9. CASE \E p \in Requests : RequestStep(p)
  BY <1>9, <1>2, <1>3, <1>4, Zenon DEF RequestStep
<1> QED BY <1>1, <1>5, <1>6, <1>7, <1>8, <1>9, Zenon DEF Next

\* How a request decides the receipt of its draft.
Decides(p, d) ==
  /\ receipt[d].st = "PROCESSING" /\ proc[p].sub = d
  /\ \/ /\ proc[p].pc = "complete"
        /\ receipt'[d].st = Outcome(proc[p].conflict) /\ receipt'[d].conflict = proc[p].conflict
     \/ proc[p].pc = "confirm" /\ receipt'[d].st = "ACCEPTED" /\ receipt'[d].conflict = 0
     \/ proc[p].pc = "refuse" /\ receipt'[d].st = "REJECTED" /\ receipt'[d].conflict = 0

ReceiptMoves(d) ==
  \/ receipt'[d] = receipt[d]
  \/ /\ receipt[d].st = "none"
     /\ receipt'[d].st = "PROCESSING" /\ receipt'[d].conflict = 0
  \/ /\ receipt[d].st = "PROCESSING"
     /\ receipt'[d].st = "PROCESSING" /\ receipt'[d].conflict = receipt[d].conflict
  \/ \E p \in Requests : Decides(p, d)
  \/ /\ reviewer.pc = "receipts" /\ receipt[d].conflict = reviewer.conflict
     /\ receipt'[d].st \in {"ACCEPTED", "REJECTED"}
     /\ receipt'[d].conflict = receipt[d].conflict
  \/ /\ receipt[d].st = "CONFLICTED"
     /\ receipt'[d].st = "ACCEPTED" /\ receipt'[d].conflict = receipt[d].conflict

\* A receipt is reserved, renewed, decided by a request that works on it, or
\* taken along by a review.
LEMMA ReceiptStep ==
  ASSUME TypeInv, [Next]_vars
  PROVE  \A d \in Drafts : ReceiptMoves(d)
<1>t. receipt \in [Drafts -> Receipt]
  BY DEF TypeInv, TypeOK
<1>u. ASSUME UNCHANGED receipt PROVE \A d \in Drafts : ReceiptMoves(d)
  BY <1>u DEF ReceiptMoves
<1>1. ASSUME NEW p \in Requests, \/ \E d \in Drafts : ReceiveDraft(p, d)
                                 \/ \E s \in Direct : ReceiveDirect(p, s)
                                 \/ Crash(p)
      PROVE  \A d \in Drafts : ReceiptMoves(d)
  BY <1>1, <1>u DEF ReceiveDraft, ReceiveDirect, Crash
<1>2. ASSUME NEW p \in Requests, \/ ReadSession(p) \/ Submit(p) \/ RaceConflict(p) \/ RaceFlag(p)
                                 \/ RaceReadBack(p) \/ LinkConflict(p) \/ Reconcile(p)
      PROVE  \A d \in Drafts : ReceiptMoves(d)
  BY <1>2, <1>u DEF ReadSession, Submit, RaceConflict, RaceFlag, RaceReadBack, LinkConflict,
                    Reconcile
<1>3. ASSUME NEW p \in Requests, Reserve(p) PROVE \A d \in Drafts : ReceiptMoves(d)
  <2>1. \/ UNCHANGED receipt
        \/ /\ receipt[proc[p].sub].st = "none"
           /\ receipt' = [receipt EXCEPT ![proc[p].sub] =
                            [st |-> "PROCESSING", lease |-> 1, conflict |-> 0]]
    BY <1>3 DEF Reserve
  <2> QED BY <2>1, <1>u, <1>t DEF ReceiptMoves
<1>4. ASSUME NEW p \in Requests, Renew(p) PROVE \A d \in Drafts : ReceiptMoves(d)
  <2>1. \/ UNCHANGED receipt
        \/ /\ receipt[proc[p].sub].st = "PROCESSING"
           /\ receipt' = [receipt EXCEPT ![proc[p].sub].lease = proc[p].lease + 1]
    BY <1>4 DEF Renew, HoldsLease
  <2>2. CASE UNCHANGED receipt
    BY <2>2, <1>u
  <2>3. ASSUME receipt[proc[p].sub].st = "PROCESSING",
               receipt' = [receipt EXCEPT ![proc[p].sub].lease = proc[p].lease + 1],
               NEW d \in Drafts
        PROVE  ReceiptMoves(d)
    <3>1. receipt[d] \in Receipt
      BY <1>t
    <3>2. receipt'[d] = receipt[d]
          \/ (d = proc[p].sub /\ receipt'[d] = [receipt[d] EXCEPT !.lease = proc[p].lease + 1])
      BY <2>3, <1>t
    <3>3. receipt'[d].st = receipt[d].st /\ receipt'[d].conflict = receipt[d].conflict
      BY <3>1, <3>2 DEF Receipt
    <3>4. receipt'[d] = receipt[d] \/ (receipt[d].st = "PROCESSING" /\ receipt'[d].st = "PROCESSING")
      BY <2>3, <3>2, <3>3
    <3> QED BY <3>3, <3>4, Zenon DEF ReceiptMoves
  <2> QED BY <2>1, <2>2, <2>3
<1>5. ASSUME NEW p \in Requests, Complete(p) \/ Confirm(p) \/ Refuse(p)
      PROVE  \A d \in Drafts : ReceiptMoves(d)
  <2>1. /\ proc[p].pc \in {"complete", "confirm", "refuse"}
        /\ proc[p].pc = "complete" => Settle(p, Outcome(proc[p].conflict), proc[p].conflict)
        /\ proc[p].pc = "confirm" => Settle(p, "ACCEPTED", 0)
        /\ proc[p].pc = "refuse" => Settle(p, "REJECTED", 0)
    BY <1>5 DEF Complete, Confirm, Refuse
  <2>2. proc[p].sub \in Drafts /\ proc[p].conflict \in 0..MaxConflicts /\ 0 \in 0..MaxConflicts
    BY <2>1, RequestType, ConstantsAssumption DEF TypeInv, Limits, Carries, OfDrafts
  <2>3. Outcome(proc[p].conflict) \in {"ACCEPTED", "CONFLICTED", "REJECTED"}
    BY DEF Outcome
  <2>4. ASSUME NEW st \in {"ACCEPTED", "CONFLICTED", "REJECTED"}, NEW c \in 0..MaxConflicts,
               Settle(p, st, c), NEW d \in Drafts
        PROVE  \/ receipt'[d] = receipt[d]
               \/ /\ receipt[d].st = "PROCESSING" /\ proc[p].sub = d
                  /\ receipt'[d].st = st /\ receipt'[d].conflict = c
    BY <2>1, <2>2, <2>4, Settles
  <2>5. ASSUME NEW d \in Drafts PROVE receipt'[d] = receipt[d] \/ Decides(p, d)
    <3>1. CASE proc[p].pc = "complete"
      BY <3>1, <2>1, <2>2, <2>3, <2>4 DEF Decides
    <3>2. CASE proc[p].pc = "confirm"
      BY <3>2, <2>1, <2>2, <2>4 DEF Decides
    <3>3. CASE proc[p].pc = "refuse"
      BY <3>3, <2>1, <2>2, <2>4 DEF Decides
    <3> QED BY <2>1, <3>1, <3>2, <3>3
  <2> QED BY <2>5 DEF ReceiptMoves
<1>6. ASSUME ReviewReceipts PROVE \A d \in Drafts : ReceiptMoves(d)
  <2>1. ASSUME NEW d \in Drafts PROVE ReceiptMoves(d)
    <3>1. receipt[d] \in Receipt /\ reviewer.pc = "receipts"
      BY <1>6, <1>t DEF ReviewReceipts
    <3>2. CASE receipt[d].conflict = reviewer.conflict
      <4>1. \E st \in {"ACCEPTED", "REJECTED"} : receipt'[d] = [receipt[d] EXCEPT !.st = st]
        BY <1>6, <3>2 DEF ReviewReceipts
      <4> QED BY <3>1, <3>2, <4>1 DEF ReceiptMoves, Receipt
    <3>3. CASE receipt[d].conflict # reviewer.conflict
      BY <1>6, <3>3 DEF ReviewReceipts, ReceiptMoves
    <3> QED BY <3>2, <3>3
  <2> QED BY <2>1
<1>7. ASSUME OverrideReceipts PROVE \A d \in Drafts : ReceiptMoves(d)
  <2>1. ASSUME NEW d \in Drafts PROVE ReceiptMoves(d)
    <3>1. receipt[d] \in Receipt
      BY <1>t
    <3>2. CASE receipt[d].st = "CONFLICTED"
      <4>1. receipt'[d] = [receipt[d] EXCEPT !.st = "ACCEPTED"]
        BY <1>7, <3>2 DEF OverrideReceipts
      <4> QED BY <3>1, <3>2, <4>1 DEF ReceiptMoves, Receipt
    <3>3. CASE receipt[d].st # "CONFLICTED"
      BY <1>7, <3>3 DEF OverrideReceipts, ReceiptMoves
    <3> QED BY <3>2, <3>3
  <2> QED BY <2>1
<1>8. CASE \/ (\E c \in DOMAIN conflict, b \in BOOLEAN : ReviewConflict(c, b)) \/ ReviewSession
           \/ (\E b \in BOOLEAN : OverrideSession(b)) \/ ApproveCorrection
           \/ (\E b \in BOOLEAN : RunCutoff(b)) \/ LockPasses
           \/ (\E d \in Drafts : LeaseExpires(d) \/ ReceiptAges(d))
  BY <1>8, <1>u DEF ReviewConflict, ReviewSession, OverrideSession, ApproveCorrection,
                    RunCutoff, LockPasses, LeaseExpires, ReceiptAges
<1>9. CASE UNCHANGED vars
  BY <1>9, <1>u DEF vars
<1>10. CASE \E p \in Requests : RequestStep(p)
  BY <1>10, <1>2, <1>3, <1>4, <1>5, Zenon DEF RequestStep
<1> QED BY <1>1, <1>6, <1>7, <1>8, <1>9, <1>10, Zenon DEF Next

-----------------------------------------------------------------------------
(* A decided receipt is final *)

\* Only a receipt with a conflict is CONFLICTED, and only a conflict is reviewed.
ReviewsHaveConflicts ==
  /\ \A d \in Drafts : receipt[d].st = "CONFLICTED" => receipt[d].conflict # 0
  /\ reviewer.pc = "receipts" => reviewer.conflict # 0

LEMMA ReviewsStep == TypeInv /\ ReviewsHaveConflicts /\ [Next]_vars => ReviewsHaveConflicts'
<1> SUFFICES ASSUME TypeInv, ReviewsHaveConflicts, [Next]_vars PROVE ReviewsHaveConflicts'
  OBVIOUS
<1>1. ASSUME NEW d \in Drafts, receipt'[d].st = "CONFLICTED" PROVE receipt'[d].conflict # 0
  <2>1. ReceiptMoves(d)
    BY ReceiptStep
  <2>2. ASSUME NEW p \in Requests, Decides(p, d) PROVE receipt'[d].conflict # 0
    BY <1>1, <2>2 DEF Decides, Outcome
  <2> QED BY <1>1, <2>1, <2>2 DEF ReceiptMoves, ReviewsHaveConflicts
<1>2. reviewer'.pc = "receipts" => reviewer'.conflict # 0
  <2>1. ASSUME NEW c \in DOMAIN conflict, NEW b \in BOOLEAN, ReviewConflict(c, b)
        PROVE  reviewer'.pc = "receipts" => reviewer'.conflict # 0
    <3>1. c # 0
      BY LenProperties DEF TypeInv, TypeOK
    <3> QED BY <2>1, <3>1 DEF ReviewConflict
  <2>2. CASE UNCHANGED reviewer
    BY <2>2 DEF ReviewsHaveConflicts
  <2>3. CASE reviewer'.pc # "receipts"
    BY <2>3
  <2>4. ASSUME NEW p \in Requests, \/ \E d \in Drafts : ReceiveDraft(p, d)
                                   \/ \E s \in Direct : ReceiveDirect(p, s)
                                   \/ Crash(p)
        PROVE  UNCHANGED reviewer
    BY <2>4 DEF ReceiveDraft, ReceiveDirect, Crash
  <2>5. ASSUME NEW p \in Requests, RequestStep(p) PROVE UNCHANGED reviewer
    BY <2>5 DEF RequestStep, Reserve, ReadSession, Submit, RaceConflict, RaceFlag, RaceReadBack,
                LinkConflict, Complete, Refuse, Reconcile, Confirm, Renew, Settle
  <2>6. ASSUME \/ ReviewReceipts \/ ReviewSession \/ OverrideReceipts
               \/ \E b \in BOOLEAN : OverrideSession(b)
        PROVE  reviewer'.pc # "receipts"
    <3>1. CASE ReviewReceipts
      <4>1. reviewer \in Review
        BY <3>1 DEF ReviewReceipts, TypeInv, TypeOK, Idle
      <4> QED BY <3>1, <4>1 DEF ReviewReceipts, Review
    <3> QED BY <2>6, <3>1 DEF ReviewSession, OverrideReceipts, OverrideSession, Idle
  <2>7. CASE \/ ApproveCorrection
             \/ (\E b \in BOOLEAN : RunCutoff(b)) \/ LockPasses
             \/ (\E d \in Drafts : LeaseExpires(d) \/ ReceiptAges(d))
    BY <2>7, <2>2 DEF ApproveCorrection, RunCutoff, LockPasses, LeaseExpires, ReceiptAges
  <2>8. CASE UNCHANGED vars
    BY <2>8, <2>2 DEF vars
  <2> QED BY <2>1, <2>2, <2>3, <2>4, <2>5, <2>6, <2>7, <2>8, Zenon DEF Next
<1> QED BY <1>1, <1>2 DEF ReviewsHaveConflicts

\* Once a receipt without a conflict is decided, no late request of an earlier
\* lease, no replay and no review changes what the client was told.
THEOREM DecidedIsFinal == Spec => DecidedReceiptIsFinal
<1>1. Init => ReviewsHaveConflicts
  BY DEF Init, ReviewsHaveConflicts, Idle
<1>2. ASSUME TypeInv, ReviewsHaveConflicts, [Next]_vars,
             NEW d \in Drafts, Decided(d), receipt[d].conflict = 0
      PROVE  receipt'[d] = receipt[d]
  <2>1. ReceiptMoves(d)
    BY <1>2, ReceiptStep
  <2> QED BY <1>2, <2>1 DEF ReceiptMoves, Decides, Decided, ReviewsHaveConflicts
<1>3. TypeInv /\ ReviewsHaveConflicts /\ [Next]_vars =>
        [\A d \in Drafts : Decided(d) /\ receipt[d].conflict = 0 => receipt'[d] = receipt[d]]_vars
  BY <1>2
<1> QED BY <1>1, <1>3, TypeInit, TypeStep, ReviewsStep, PTL DEF Spec, DecidedReceiptIsFinal

-----------------------------------------------------------------------------
(* Where a sheet without marks is locked and nobody may pass the lock, marks
   are not lost *)

\* No cutoff before its hour, and no submission by a holder of
\* attendance:override_lock.
OrdinaryMarking == "earlyCutoff" \notin Faults /\ Overriders = {}

Saved(d) == session.by = d \/ \E c \in DOMAIN conflict : conflict[c].of = d

SavedNext(d) == session'.by = d \/ \E c \in DOMAIN conflict' : conflict'[c].of = d

\* The sheet: official only with its submission, and locked while unmarked.
SheetInv ==
  /\ session.st = "unmarked" => session.locked
  /\ session.st # "official" => session.by = None
  /\ \A p \in Requests : proc[p].pc = "submit" => proc[p].seen # "unmarked"

SheetStays == /\ session.by # None => session'.by = session.by
              /\ session.st = "official" => session'.by = session.by

\* What the transaction writes is official and of its submission.
LEMMA OfficialSheet ==
  ASSUME NEW s, NEW sheet \in Official(s)
  PROVE  sheet.st = "official" /\ sheet.by = s
<1> DEFINE row(b) == [st |-> "official", by |-> s, altered |-> b, flag |-> "NONE", locked |-> FALSE]
<1>1. \E b : sheet = row(b)
  BY Zenon DEF Official
<1>2. \A b : row(b).st = "official" /\ row(b).by = s
  OBVIOUS
<1> QED BY <1>1, <1>2

\* No step replaces an official sheet.
LEMMA SheetStep ==
  ASSUME OrdinaryMarking, TypeInv, SheetInv, [Next]_vars
  PROVE  SheetInv' /\ SheetStays
<1> USE ConstantsAssumption
<1>t. session \in Session /\ proc \in Procs /\ MaxConflicts \in Nat
  BY DEF TypeInv, TypeOK, Procs
<1> DEFINE Sheet == /\ SheetStays
                    /\ session'.st = "unmarked" => session'.locked
                    /\ session'.st # "official" => session'.by = None
           Seen(q) == proc'[q].pc = "submit" => proc'[q].seen # "unmarked"
<1>1. ASSUME Sheet, \A q \in Requests : Seen(q) PROVE SheetInv' /\ SheetStays
  BY <1>1 DEF SheetInv
<1>u. ASSUME UNCHANGED session PROVE Sheet
  BY <1>u DEF SheetInv, SheetStays
<1>v. ASSUME UNCHANGED proc, NEW q \in Requests PROVE Seen(q)
  BY <1>v DEF SheetInv
<1>w. ASSUME NEW p \in Requests, \A q \in Requests \ {p} : proc'[q] = proc[q], Seen(p),
             NEW q \in Requests
      PROVE  Seen(q)
  BY <1>w DEF SheetInv
<1>i. ~(Idle.pc = "submit")
  BY DEF Idle
<1>a. ASSUME NEW p \in Requests, Answer(p), NEW q \in Requests PROVE Seen(q)
  <2>1. proc'[p] = Idle /\ \A r \in Requests \ {p} : proc'[r] = proc[r]
    BY <1>a, <1>t, Answers
  <2> QED BY <2>1, <1>i, <1>w
<1>g. ASSUME NEW p \in Requests, proc[p].pc # "idle", NEW pc \in Places \ {"submit"},
             Goto(p, pc), NEW q \in Requests
      PROVE  Seen(q)
  <2>1. /\ proc[p] \in Request /\ proc'[p] = [proc[p] EXCEPT !.pc = pc]
        /\ \A r \in Requests \ {p} : proc'[r] = proc[r]
    BY <1>g, <1>t, Goes
  <2>2. proc'[p].pc = pc
    BY <2>1 DEF Request
  <2> QED BY <2>1, <2>2, <1>g, <1>w
<1>s. ASSUME NEW p \in Requests, NEW s, NEW pc, NEW l, Start(p, s, pc, l), NEW q \in Requests
      PROVE  Seen(q)
  <2>1. /\ proc'[p] = [pc |-> pc, sub |-> s, lease |-> l, seen |-> "none", conflict |-> 0]
        /\ \A r \in Requests \ {p} : proc'[r] = proc[r]
    BY <1>s, <1>t DEF Start, Procs
  <2> QED BY <2>1, <1>w
<1>f. Places \ {"submit"} = {"read", "race", "flag", "readback", "link", "complete", "refuse",
                             "reserve", "reconcile", "confirm", "renew"}
  BY DEF Places, Working
\* Steps that leave the sheet alone and answer, or start or move a request
<1>2. ASSUME NEW p \in Requests, \/ \E d \in Drafts : ReceiveDraft(p, d)
                                 \/ \E s \in Direct : ReceiveDirect(p, s)
                                 \/ Crash(p) \/ Reserve(p) \/ Renew(p)
      PROVE  SheetInv' /\ SheetStays
  <2>1. UNCHANGED session
    BY <1>2 DEF ReceiveDraft, ReceiveDirect, Crash, Reserve, Renew
  <2>2. Answer(p) \/ \E s, pc, l : Start(p, s, pc, l)
    BY <1>2, Zenon DEF ReceiveDraft, ReceiveDirect, Crash, Reserve, Renew, Replay
  <2>3. \A q \in Requests : Seen(q)
    BY <2>2, <1>a, <1>s
  <2> QED BY <2>1, <2>3, <1>u, <1>1
<1>3. ASSUME NEW p \in Requests, \/ RaceConflict(p) \/ RaceReadBack(p) \/ Reconcile(p)
                                 \/ Complete(p) \/ Refuse(p) \/ Confirm(p)
      PROVE  SheetInv' /\ SheetStays
  <2>1. UNCHANGED session /\ proc[p].pc # "idle"
    BY <1>3 DEF RaceConflict, RaceReadBack, Reconcile, Complete, Refuse, Confirm, Settle
  <2>2. Answer(p) \/ \E pc \in Places \ {"submit"} : Goto(p, pc)
    BY <1>3, <1>f DEF RaceConflict, RaceReadBack, Reconcile, Complete, Refuse, Confirm, Settle
  <2>3. \A q \in Requests : Seen(q)
    BY <2>1, <2>2, <1>a, <1>g
  <2> QED BY <2>1, <2>3, <1>u, <1>1
<1>4. ASSUME NEW p \in Requests, LinkConflict(p) PROVE SheetInv' /\ SheetStays
  <2>1. UNCHANGED session /\ proc[p] \in Request
    BY <1>4, RequestType DEF LinkConflict
  <2>2. proc' = [proc EXCEPT ![p] = [proc[p] EXCEPT !.pc = "complete", !.conflict = Len(conflict)]]
    BY <1>4 DEF LinkConflict
  <2>3. [proc[p] EXCEPT !.pc = "complete", !.conflict = Len(conflict)].pc = "complete"
    BY <2>1 DEF Request
  <2>4. proc'[p].pc = "complete" /\ \A q \in Requests \ {p} : proc'[q] = proc[q]
    BY <2>2, <2>3, <1>t DEF Procs
  <2> QED BY <2>1, <2>4, <1>w, <1>u, <1>1
<1>5. ASSUME NEW p \in Requests, ReadSession(p) PROVE SheetInv' /\ SheetStays
  <2>1. UNCHANGED session /\ proc[p] \in Request
    BY <1>5, RequestType DEF ReadSession
  <2>2. CASE Refusal(p)
    <3>1. Answer(p) \/ (Goto(p, "refuse") /\ "refuse" \in Places \ {"submit"})
      BY <2>2, <1>f DEF Refusal
    <3>2. proc[p].pc # "idle"
      BY <1>5 DEF ReadSession
    <3>3. \A q \in Requests : Seen(q)
      BY <3>1, <3>2, <1>a, <1>g
    <3> QED BY <2>1, <3>3, <1>u, <1>1
  <2>3. CASE ~Refusal(p)
    <3>1. /\ ~(session.st # "none" /\ session.locked)
          /\ proc' = [proc EXCEPT ![p] = [proc[p] EXCEPT !.pc = "submit", !.seen = session.st]]
      BY <1>5, <2>3 DEF ReadSession, OrdinaryMarking
    <3>2. session.st # "unmarked"
      BY <3>1 DEF SheetInv
    <3>3. [proc[p] EXCEPT !.pc = "submit", !.seen = session.st].seen = session.st
      BY <2>1 DEF Request
    <3>4. proc'[p].seen # "unmarked" /\ \A q \in Requests \ {p} : proc'[q] = proc[q]
      BY <3>1, <3>2, <3>3, <1>t DEF Procs
    <3> QED BY <2>1, <3>4, <1>w, <1>u, <1>1
  <2> QED BY <2>2, <2>3
<1>6. ASSUME NEW p \in Requests, Submit(p) PROVE SheetInv' /\ SheetStays
  <2>1. proc[p].pc = "submit" /\ proc[p].seen # "unmarked" /\ proc[p].sub \in Submissions
    BY <1>6, RequestType DEF Submit, SheetInv
  <2>2. \/ session.st = "none" /\ session' \in Official(proc[p].sub)
        \/ UNCHANGED session
        \/ session' = [session EXCEPT !.flag = "FLAGGED"]
    BY <1>6, <2>1 DEF Submit, Fills
  <2>3. Sheet
    <3>1. CASE session.st = "none" /\ session' \in Official(proc[p].sub)
      <4>1. session'.st = "official" /\ session'.by = proc[p].sub
        BY <3>1, OfficialSheet
      <4>2. session.by = None
        BY <3>1 DEF SheetInv
      <4> QED BY <3>1, <4>1, <4>2 DEF SheetStays
    <3>2. CASE session' = [session EXCEPT !.flag = "FLAGGED"]
      BY <3>2, <1>t DEF Session, SheetInv, SheetStays
    <3> QED BY <2>2, <3>1, <3>2, <1>u
  <2>4. Answer(p) \/ \E pc \in Places \ {"submit"} : Goto(p, pc)
    BY <1>6, <1>f DEF Submit
  <2>5. \A q \in Requests : Seen(q)
    BY <2>1, <2>4, <1>a, <1>g
  <2> QED BY <2>3, <2>5, <1>1
<1>7. ASSUME NEW p \in Requests, RaceFlag(p) PROVE SheetInv' /\ SheetStays
  <2>1. proc[p].pc # "idle" /\ (Answer(p) \/ \E pc \in Places \ {"submit"} : Goto(p, pc))
    BY <1>7, <1>f DEF RaceFlag
  <2>2. Sheet
    BY <1>7, <1>t DEF RaceFlag, Session, SheetInv, SheetStays
  <2>3. \A q \in Requests : Seen(q)
    BY <2>1, <1>a, <1>g
  <2> QED BY <2>2, <2>3, <1>1
\* Steps of others
<1>8. ASSUME UNCHANGED proc, Sheet PROVE SheetInv' /\ SheetStays
  BY <1>8, <1>v, <1>1
<1>9. CASE \/ (\E c \in DOMAIN conflict, b \in BOOLEAN : ReviewConflict(c, b))
           \/ ReviewReceipts \/ OverrideReceipts
           \/ (\E d \in Drafts : LeaseExpires(d) \/ ReceiptAges(d))
  BY <1>9, <1>u, <1>8 DEF ReviewConflict, ReviewReceipts, OverrideReceipts, LeaseExpires,
                          ReceiptAges
<1>10. CASE UNCHANGED vars
  BY <1>10, <1>u, <1>8 DEF vars
<1>11. CASE ReviewSession
  <2>1. Sheet
    BY <1>11, <1>t DEF ReviewSession, Session, SheetInv, SheetStays
  <2> QED BY <1>11, <2>1, <1>8 DEF ReviewSession
<1>12. ASSUME NEW b \in BOOLEAN, OverrideSession(b) PROVE SheetInv' /\ SheetStays
  <2>1. Sheet
    BY <1>12, <1>t DEF OverrideSession, Session, SheetInv, SheetStays
  <2> QED BY <1>12, <2>1, <1>8 DEF OverrideSession
<1>13. CASE ApproveCorrection
  <2>1. Sheet
    BY <1>13, <1>t DEF ApproveCorrection, Session, SheetInv, SheetStays
  <2> QED BY <1>13, <2>1, <1>8 DEF ApproveCorrection
<1>14. ASSUME NEW b \in BOOLEAN, RunCutoff(b) PROVE SheetInv' /\ SheetStays
  <2>1. Sheet
    BY <1>14, <1>t DEF RunCutoff, OrdinaryMarking, Session, SheetInv, SheetStays
  <2> QED BY <1>14, <2>1, <1>8 DEF RunCutoff
<1>15. CASE LockPasses
  <2>1. Sheet
    BY <1>15, <1>t DEF LockPasses, Session, SheetInv, SheetStays
  <2> QED BY <1>15, <2>1, <1>8 DEF LockPasses
<1>16. CASE \E p \in Requests : RequestStep(p)
  BY <1>16, <1>2, <1>3, <1>4, <1>5, <1>6, <1>7, Zenon DEF RequestStep
<1> QED BY <1>2, <1>9, <1>10, <1>11, <1>12, <1>13, <1>14, <1>15, <1>16, Zenon DEF Next

LEMMA SheetInit == Init => SheetInv
BY DEF Init, SheetInv, Idle

\* Where no cutoff runs before its hour and nobody may pass the lock, an
\* official sheet keeps its submission.
THEOREM OfficialStays ==
  ASSUME OrdinaryMarking
  PROVE  Spec => OfficialIsImmutable
<1>1. TypeInv /\ SheetInv /\ [Next]_vars => SheetInv'
  BY SheetStep
<1>2. TypeInv /\ SheetInv /\ [Next]_vars => [session.st = "official" => session'.by = session.by]_vars
  BY SheetStep DEF SheetStays
<1> QED BY <1>1, <1>2, SheetInit, TypeInit, TypeStep, PTL DEF Spec, OfficialIsImmutable

\* Requests that told nobody yet what became of the marks, which are kept.
Sure == {"flag", "readback", "link", "complete", "confirm"}

SureAreSaved == \A p \in Requests : proc[p].pc \in Sure /\ proc[p].sub \in Drafts => Saved(proc[p].sub)
AnsweredAreSaved ==
  \A d \in Drafts : receipt[d].st \in {"ACCEPTED", "CONFLICTED"} \/ receipt[d].conflict # 0 => Saved(d)

\* What is kept stays kept.
LEMMA SavedStays ==
  ASSUME SheetStays, RowsStay, NEW d \in Drafts, Saved(d)
  PROVE  SavedNext(d)
<1>1. CASE session.by = d
  BY <1>1, ConstantsAssumption DEF SheetStays, Saved, SavedNext
<1>2. ASSUME NEW c \in DOMAIN conflict, conflict[c].of = d PROVE SavedNext(d)
  BY <1>2 DEF RowsStay, Saved, SavedNext
<1> QED BY <1>1, <1>2 DEF Saved

\* A request decides only after the marks it carries are kept.
LEMMA SureStep ==
  ASSUME OrdinaryMarking, TypeInv, SheetInv, SureAreSaved, [Next]_vars
  PROVE  SureAreSaved'
<1>t. proc \in Procs /\ SheetStays /\ RowsStay
  BY SheetStep, RowsStep DEF TypeInv, TypeOK, Procs
<1> DEFINE Holds(q) == proc'[q].pc \in Sure /\ proc'[q].sub \in Drafts => SavedNext(proc'[q].sub)
<1>1. ASSUME \A q \in Requests : Holds(q) PROVE SureAreSaved'
  <2>1. ASSUME NEW q \in Requests, proc'[q].pc \in Sure, proc'[q].sub \in Drafts
        PROVE  SavedNext(proc'[q].sub)
    BY <1>1, <2>1
  <2> QED BY <2>1 DEF SureAreSaved, Saved, SavedNext
<1>v. ASSUME NEW q \in Requests, proc'[q] = proc[q] PROVE Holds(q)
  <2>1. CASE proc[q].pc \in Sure /\ proc[q].sub \in Drafts
    BY <1>v, <2>1, <1>t, SavedStays DEF SureAreSaved
  <2> QED BY <1>v, <2>1
<1>w. ASSUME NEW p \in Requests, \A q \in Requests \ {p} : proc'[q] = proc[q], Holds(p)
      PROVE  SureAreSaved'
  BY <1>w, <1>v, <1>1
<1>a. ASSUME NEW p \in Requests, Answer(p) PROVE SureAreSaved'
  <2>1. proc'[p] = Idle /\ \A q \in Requests \ {p} : proc'[q] = proc[q]
    BY <1>a, <1>t, Answers
  <2>2. Idle.pc \notin Sure
    BY DEF Idle, Sure
  <2> QED BY <2>1, <2>2, <1>w
<1>g. ASSUME NEW p \in Requests, proc[p].pc # "idle", NEW pc \in Places, Goto(p, pc),
             \/ pc \notin Sure \/ proc[p].pc \in Sure
             \/ (proc[p].sub \in Drafts => SavedNext(proc[p].sub))
      PROVE  SureAreSaved'
  <2>1. /\ proc[p] \in Request /\ proc'[p] = [proc[p] EXCEPT !.pc = pc]
        /\ \A q \in Requests \ {p} : proc'[q] = proc[q]
    BY <1>g, <1>t, Goes
  <2>2. proc'[p].pc = pc /\ proc'[p].sub = proc[p].sub
    BY <2>1 DEF Request
  <2>3. CASE proc[p].pc \in Sure /\ proc[p].sub \in Drafts
    <3>1. SavedNext(proc[p].sub)
      BY <2>3, <1>t, SavedStays DEF SureAreSaved
    <3> QED BY <2>1, <2>2, <3>1, <1>w
  <2>4. CASE ~(proc[p].pc \in Sure /\ proc[p].sub \in Drafts)
    BY <2>1, <2>2, <2>4, <1>g, <1>w
  <2> QED BY <2>3, <2>4
<1>s. ASSUME NEW p \in Requests, NEW s, NEW pc, NEW l, Start(p, s, pc, l), pc \notin Sure
      PROVE  SureAreSaved'
  <2>1. /\ proc'[p] = [pc |-> pc, sub |-> s, lease |-> l, seen |-> "none", conflict |-> 0]
        /\ \A q \in Requests \ {p} : proc'[q] = proc[q]
    BY <1>s, <1>t DEF Start, Procs
  <2> QED BY <2>1, <1>s, <1>w
<1>f. /\ Places = {"read", "submit", "race", "flag", "readback", "link", "complete", "refuse",
                   "reserve", "reconcile", "confirm", "renew"}
      /\ Sure = {"flag", "readback", "link", "complete", "confirm"}
  BY DEF Places, Working, Sure
<1>2. ASSUME NEW p \in Requests, \/ \E d \in Drafts : ReceiveDraft(p, d)
                                 \/ \E s \in Direct : ReceiveDirect(p, s)
                                 \/ Crash(p) \/ Reserve(p) \/ Renew(p)
      PROVE  SureAreSaved'
  <2>1. Answer(p) \/ \E s, l : \E pc \in {"reserve", "read", "reconcile"} : Start(p, s, pc, l)
    BY <1>2, Zenon DEF ReceiveDraft, ReceiveDirect, Crash, Reserve, Renew, Replay
  <2>2. \A pc \in {"reserve", "read", "reconcile"} : pc \notin Sure
    BY <1>f
  <2> QED BY <2>1, <2>2, <1>a, <1>s
<1>3. ASSUME NEW p \in Requests, Complete(p) \/ Refuse(p) \/ Confirm(p) PROVE SureAreSaved'
  BY <1>3, <1>a DEF Complete, Refuse, Confirm, Settle
<1>4. ASSUME NEW p \in Requests, RaceFlag(p) \/ RaceReadBack(p) PROVE SureAreSaved'
  <2>1. proc[p].pc \in Sure /\ proc[p].pc # "idle"
    BY <1>4, <1>f DEF RaceFlag, RaceReadBack
  <2>2. Answer(p) \/ \E pc \in Places : Goto(p, pc)
    BY <1>4, <1>f DEF RaceFlag, RaceReadBack
  <2> QED BY <2>1, <2>2, <1>a, <1>g
<1>5. ASSUME NEW p \in Requests, LinkConflict(p) PROVE SureAreSaved'
  <2>1. proc[p] \in Request /\ proc[p].pc \in Sure
    BY <1>5, <1>f, RequestType DEF LinkConflict
  <2>2. proc' = [proc EXCEPT ![p] = [proc[p] EXCEPT !.pc = "complete", !.conflict = Len(conflict)]]
    BY <1>5 DEF LinkConflict
  <2>3. [proc[p] EXCEPT !.pc = "complete", !.conflict = Len(conflict)].sub = proc[p].sub
    BY <2>1 DEF Request
  <2>4. proc'[p].sub = proc[p].sub /\ \A q \in Requests \ {p} : proc'[q] = proc[q]
    BY <2>2, <2>3, <1>t DEF Procs
  <2>5. CASE proc[p].sub \in Drafts
    <3>1. SavedNext(proc[p].sub)
      BY <2>1, <2>5, <1>t, SavedStays DEF SureAreSaved
    <3> QED BY <2>4, <3>1, <1>w
  <2>6. CASE proc[p].sub \notin Drafts
    BY <2>4, <2>6, <1>w
  <2> QED BY <2>5, <2>6
<1>6. ASSUME NEW p \in Requests, ReadSession(p) PROVE SureAreSaved'
  <2>1. proc[p] \in Request /\ proc[p].pc # "idle"
    BY <1>6, RequestType DEF ReadSession
  <2>2. CASE Refusal(p)
    <3>1. Answer(p) \/ (Goto(p, "refuse") /\ "refuse" \in Places /\ "refuse" \notin Sure)
      BY <2>2, <1>f DEF Refusal
    <3> QED BY <2>1, <3>1, <1>a, <1>g
  <2>3. CASE ~Refusal(p)
    <3>1. proc' = [proc EXCEPT ![p] = [proc[p] EXCEPT !.pc = "submit", !.seen = session.st]]
      BY <1>6, <2>3 DEF ReadSession
    <3>2. [proc[p] EXCEPT !.pc = "submit", !.seen = session.st].pc = "submit"
      BY <2>1 DEF Request
    <3>3. proc'[p].pc \notin Sure /\ \A q \in Requests \ {p} : proc'[q] = proc[q]
      BY <3>1, <3>2, <1>t, <1>f DEF Procs
    <3> QED BY <3>3, <1>w
  <2> QED BY <2>2, <2>3
<1>7. ASSUME NEW p \in Requests, Submit(p) PROVE SureAreSaved'
  <2> DEFINE s == proc[p].sub
  <2>1. /\ proc[p].pc # "idle" /\ s \in Submissions /\ "complete" \in Places
        /\ "link" \in Places /\ "race" \in Places /\ "race" \notin Sure
    BY <1>7, <1>f, RequestType DEF Submit
  <2>2. \/ Answer(p)
        \/ Goto(p, "complete") /\ session' \in Official(s)
        \/ Goto(p, "race")
        \/ Goto(p, "link") /\ Len(conflict) < MaxConflicts /\ conflict' = Preserved(s)
    BY <1>7, Zenon DEF Submit
  <2>3. CASE Goto(p, "complete") /\ session' \in Official(s)
    <3>1. SavedNext(s)
      BY <2>3, OfficialSheet DEF SavedNext
    <3> QED BY <2>1, <2>3, <3>1, <1>g
  <2>4. CASE Goto(p, "link") /\ Len(conflict) < MaxConflicts /\ conflict' = Preserved(s)
    <3>1. SavedNext(s)
      BY <2>1, <2>4, ConflictAdded DEF SavedNext, Preserved
    <3> QED BY <2>1, <2>4, <3>1, <1>g
  <2> QED BY <2>1, <2>2, <2>3, <2>4, <1>a, <1>g
<1>8. ASSUME NEW p \in Requests, RaceConflict(p) PROVE SureAreSaved'
  <2>1. /\ proc[p].pc # "idle" /\ proc[p].sub \in Submissions /\ "flag" \in Places
        /\ Len(conflict) < MaxConflicts /\ conflict' = Preserved(proc[p].sub) /\ Goto(p, "flag")
    BY <1>8, <1>f, RequestType DEF RaceConflict, Kept
  <2>2. SavedNext(proc[p].sub)
    BY <2>1, ConflictAdded DEF SavedNext, Preserved
  <2> QED BY <2>1, <2>2, <1>g
<1>9. ASSUME NEW p \in Requests, Reconcile(p) PROVE SureAreSaved'
  <2>1. proc[p].pc # "idle" /\ {"confirm", "renew"} \subseteq Places /\ "renew" \notin Sure
    BY <1>9, <1>f DEF Reconcile
  <2>2. Answer(p) \/ Goto(p, "renew") \/ (Goto(p, "confirm") /\ MatchesOfficial(proc[p].sub))
    BY <1>9 DEF Reconcile
  <2>3. CASE Goto(p, "confirm") /\ MatchesOfficial(proc[p].sub)
    <3>1. Saved(proc[p].sub)
      BY <2>3 DEF MatchesOfficial, Saved
    <3>2. proc[p].sub \in Drafts => SavedNext(proc[p].sub)
      BY <3>1, <1>t, SavedStays
    <3> QED BY <2>1, <2>3, <3>2, <1>g
  <2> QED BY <2>1, <2>2, <2>3, <1>a, <1>g
<1>10. CASE UNCHANGED proc
  BY <1>10, <1>v, <1>1
<1>11. CASE \/ (\E c \in DOMAIN conflict, b \in BOOLEAN : ReviewConflict(c, b)) \/ ReviewSession
            \/ (\E b \in BOOLEAN : OverrideSession(b)) \/ ApproveCorrection
            \/ (\E b \in BOOLEAN : RunCutoff(b)) \/ LockPasses
            \/ (\E d \in Drafts : LeaseExpires(d) \/ ReceiptAges(d))
            \/ ReviewReceipts \/ OverrideReceipts
  BY <1>11, <1>10 DEF ReviewConflict, ReviewSession, OverrideSession, ApproveCorrection, RunCutoff,
                      LockPasses, LeaseExpires, ReceiptAges, ReviewReceipts, OverrideReceipts
<1>12. CASE UNCHANGED vars
  BY <1>12, <1>10 DEF vars
<1>13. CASE \E p \in Requests : RequestStep(p)
  BY <1>13, <1>2, <1>3, <1>4, <1>5, <1>6, <1>7, <1>8, <1>9, Zenon DEF RequestStep
<1> QED BY <1>2, <1>11, <1>12, <1>13, Zenon DEF Next

\* What a client was told of its draft is true of the sheet or of the conflicts.
LEMMA AnsweredStep ==
  ASSUME OrdinaryMarking, TypeInv, SheetInv, SureAreSaved, ReviewsHaveConflicts, AnsweredAreSaved,
         [Next]_vars
  PROVE  AnsweredAreSaved'
<1> SUFFICES ASSUME NEW d \in Drafts,
                    receipt'[d].st \in {"ACCEPTED", "CONFLICTED"} \/ receipt'[d].conflict # 0
             PROVE  SavedNext(d)
  BY DEF AnsweredAreSaved, Saved, SavedNext
<1>1. ReceiptMoves(d) /\ SheetStays /\ RowsStay
  BY ReceiptStep, SheetStep, RowsStep
<1>2. ASSUME NEW p \in Requests, Decides(p, d) PROVE Saved(d)
  <2>1. proc[p].pc # "refuse"
    BY <1>2 DEF Decides
  <2> QED BY <1>2, <2>1 DEF Decides, SureAreSaved, Sure
<1>3. Saved(d)
  BY <1>1, <1>2 DEF ReceiptMoves, AnsweredAreSaved, ReviewsHaveConflicts
<1> QED BY <1>1, <1>3, SavedStays

\* Where no cutoff runs before its hour and nobody may pass the lock, the marks
\* of every draft whose client was told ACCEPTED or CONFLICTED are the official
\* sheet or kept for review, whatever races, dies or is replayed.
THEOREM AnsweredKept ==
  ASSUME OrdinaryMarking
  PROVE  Spec => []AnsweredDraftsAreKept
<1> DEFINE Inv == TypeInv /\ SheetInv /\ SureAreSaved /\ ReviewsHaveConflicts /\ AnsweredAreSaved
<1>1. Init => Inv
  <2>1. Init => SureAreSaved /\ ReviewsHaveConflicts /\ AnsweredAreSaved
    BY DEF Init, SureAreSaved, ReviewsHaveConflicts, AnsweredAreSaved, Idle, Sure
  <2> QED BY <2>1, TypeInit, SheetInit
<1>2. Inv /\ [Next]_vars => Inv'
  BY TypeStep, SheetStep, SureStep, ReviewsStep, AnsweredStep
<1>3. Inv => AnsweredDraftsAreKept
  BY DEF AnsweredAreSaved, AnsweredDraftsAreKept, Saved
<1> QED BY <1>1, <1>2, <1>3, PTL DEF Spec

-----------------------------------------------------------------------------
(* A step as a move of one request, with what it does to the sheet, the
   receipts and the conflict rows *)

SomeReviewed == \E c \in DOMAIN conflict : conflict[c].reviewed

\* No row is lost, handed over or reopened, and the new ones are of s.
RowsGrow(s) ==
  /\ DOMAIN conflict \subseteq DOMAIN conflict'
  /\ \A c \in DOMAIN conflict : /\ conflict'[c].of = conflict[c].of
                                /\ conflict[c].reviewed => conflict'[c].reviewed
  /\ \A c \in DOMAIN conflict' : c \notin DOMAIN conflict => conflict'[c].of = s

\* The sheet keeps its submission; only a review takes its flag off.
SheetKept ==
  /\ session'.by = session.by
  /\ session.altered => session'.altered
  /\ session.st # "none" => session'.st # "none"
  /\ \/ session'.flag \in {session.flag, "FLAGGED"}
     \/ session'.flag = "REVIEWED" /\ (reviewer.pc = "session" \/ SomeReviewed')

\* The marks of s become official where the class had no sheet.
Marked(s) ==
  /\ session.st = "none"
  /\ session'.st = "official" /\ session'.by = s /\ session'.flag = "NONE"
  /\ UNCHANGED conflict

Only(p) == \A q \in Requests \ {p} : proc'[q] = proc[q]
OnlyOf(d) == \A e \in Drafts \ {d} : receipt'[e] = receipt[e] /\ overdue'[e] = overdue[e]

Rests == UNCHANGED <<proc, receipt, overdue>> /\ SheetKept /\ RowsGrow(None)

Ends(p) ==
  /\ Only(p) /\ proc'[p] = Idle /\ UNCHANGED <<receipt, overdue>>
  /\ \/ SheetKept /\ RowsGrow(None)
     \/ proc[p].sub \in Direct /\ SheetKept /\ RowsGrow(proc[p].sub)
     \/ proc[p].sub \in Direct /\ Marked(proc[p].sub)

Takes(p) ==
  /\ Only(p) /\ proc'[p] \in Request /\ UNCHANGED <<session, receipt, overdue, conflict>>
  /\ \/ proc'[p].pc = "read" /\ proc'[p].sub \in Direct
     \/ proc'[p].pc = "reserve"
     \/ /\ proc'[p].pc = "reconcile" /\ proc'[p].sub \in Drafts
        /\ receipt[proc'[p].sub].st = "PROCESSING" /\ overdue[proc'[p].sub]
        /\ proc'[p].lease = receipt[proc'[p].sub].lease

Reserves(p, d) ==
  /\ Only(p) /\ proc[p].pc = "reserve" /\ receipt[d].st = "none"
  /\ proc'[p] \in Request /\ proc'[p].pc = "read" /\ proc'[p].sub = d /\ proc'[p].lease = 1
  /\ receipt'[d].st = "PROCESSING" /\ receipt'[d].lease = 1 /\ receipt'[d].conflict = 0
  /\ OnlyOf(d) /\ overdue'[d] = overdue[d] /\ UNCHANGED <<session, conflict>>

\* How a request goes on from one place to the next.
Passes(p) ==
  LET from == proc[p].pc
      to == proc'[p].pc
  IN  \/ /\ from = "read" /\ to \in {"submit", "refuse"} /\ UNCHANGED <<session, conflict>>
         /\ to = "submit" => proc'[p].seen = session.st
      \/ from = "submit" /\ to = "complete" /\ Marked(proc[p].sub)
      \/ from = "submit" /\ to = "race" /\ session.st # "none" /\ UNCHANGED <<session, conflict>>
      \/ /\ from = "submit" /\ to = "link" /\ proc[p].seen = "official"
         /\ SheetKept /\ DOMAIN conflict' # {} /\ RowsGrow(proc[p].sub)
      \/ /\ from = "race" /\ to = "flag" /\ UNCHANGED session
         /\ DOMAIN conflict' # {} /\ RowsGrow(proc[p].sub)
      \/ /\ from = "flag" /\ to = "readback" /\ SheetKept /\ session'.flag = "FLAGGED"
         /\ UNCHANGED conflict
      \/ /\ from = "readback" /\ to \in {"link", "complete"} /\ UNCHANGED <<session, conflict>>
         /\ to = "complete" => session.flag # "FLAGGED"
      \/ /\ from = "link" /\ to = "complete" /\ UNCHANGED <<session, conflict>>
         /\ proc'[p].conflict = Len(conflict)
      \/ /\ from = "reconcile" /\ to \in {"confirm", "renew"} /\ UNCHANGED <<session, conflict>>
         /\ to = "confirm" <=> MatchesOfficial(proc[p].sub)

Advances(p) ==
  /\ Only(p) /\ proc[p] \in Request /\ proc'[p] \in Request /\ UNCHANGED <<receipt, overdue>>
  /\ proc'[p].sub = proc[p].sub /\ proc'[p].lease = proc[p].lease
  /\ Passes(p)

Settled(p, d) ==
  /\ Only(p) /\ proc'[p] = Idle /\ proc[p].sub = d /\ HoldsLease(p) /\ Decides(p, d)
  /\ receipt'[d].lease = receipt[d].lease
  /\ OnlyOf(d) /\ overdue'[d] = overdue[d] /\ UNCHANGED <<session, conflict>>

Renews(p, d) ==
  /\ Only(p) /\ proc[p].pc = "renew" /\ proc[p].sub = d /\ HoldsLease(p)
  /\ proc'[p] \in Request /\ proc'[p].pc = "read" /\ proc'[p].sub = d
  /\ proc'[p].lease = receipt[d].lease + 1
  /\ receipt'[d].st = "PROCESSING" /\ receipt'[d].lease = receipt[d].lease + 1
  /\ receipt'[d].conflict = receipt[d].conflict
  /\ OnlyOf(d) /\ ~overdue'[d] /\ UNCHANGED <<session, conflict>>

\* A review takes along receipts that are decided.
Reviewed ==
  /\ UNCHANGED <<proc, session, overdue, conflict>>
  /\ \A d \in Drafts :
       \/ receipt'[d] = receipt[d]
       \/ /\ receipt[d].conflict # 0 /\ receipt'[d].conflict = receipt[d].conflict
          /\ receipt'[d].st \in {"ACCEPTED", "REJECTED"} /\ receipt'[d].lease = receipt[d].lease

Expires(d) ==
  /\ receipt[d].st = "PROCESSING" /\ ("slow" \in Faults \/ ~Alive(d, receipt[d].lease))
  /\ overdue' = [overdue EXCEPT ![d] = TRUE]
  /\ UNCHANGED <<proc, session, receipt, conflict>>

Move ==
  \/ Rests \/ Reviewed
  \/ \E p \in Requests : Ends(p) \/ Takes(p) \/ Advances(p)
  \/ \E p \in Requests, d \in Drafts : Reserves(p, d) \/ Settled(p, d) \/ Renews(p, d)
  \/ \E d \in Drafts : Expires(d)

\* Rows that stay, and rows that are added or reviewed.
LEMMA RowsUnchanged == UNCHANGED conflict => \A s : RowsGrow(s)
BY DEF RowsGrow

LEMMA RowAdded ==
  ASSUME TypeInv, NEW s \in Submissions \cup {None}, NEW b \in BOOLEAN,
         Len(conflict) < MaxConflicts, conflict' = Append(conflict, [of |-> s, reviewed |-> b])
  PROVE  /\ RowsGrow(s) /\ DOMAIN conflict' # {}
         /\ b => SomeReviewed'
<1> DEFINE row == [of |-> s, reviewed |-> b]
<1>1. /\ DOMAIN conflict \subseteq DOMAIN conflict'
      /\ \A c \in DOMAIN conflict : conflict'[c] = conflict[c]
      /\ Len(conflict') \in DOMAIN conflict'
  BY ConflictAdded
<1>2. conflict \in Seq(Conflict) /\ row \in Conflict /\ conflict' = Append(conflict, row)
  BY DEF TypeInv, TypeOK, Conflict
<1>3. row.of = s /\ row.reviewed = b
  OBVIOUS
<1> HIDE DEF row
<1>4. /\ Len(conflict) \in Nat /\ DOMAIN conflict = 1..Len(conflict)
      /\ DOMAIN conflict' = 1..(Len(conflict) + 1) /\ conflict'[Len(conflict) + 1] = row
  BY <1>2, AppendProperties, LenProperties
<1>5. \A c \in DOMAIN conflict' : c \notin DOMAIN conflict => conflict'[c] = row
  BY <1>4
<1> QED BY <1>1, <1>3, <1>4, <1>5 DEF RowsGrow, SomeReviewed

LEMMA RowReviewed ==
  ASSUME TypeInv, NEW c \in DOMAIN conflict, conflict' = [conflict EXCEPT ![c].reviewed = TRUE]
  PROVE  RowsGrow(None) /\ SomeReviewed'
<1>1. conflict \in [1..Len(conflict) -> Conflict] /\ c \in 1..Len(conflict)
  BY LenProperties, SeqDef DEF TypeInv, TypeOK
<1>2. conflict[c] \in Conflict
  BY <1>1
<1>3. PICK row : row = [conflict[c] EXCEPT !.reviewed = TRUE]
  OBVIOUS
<1>4. conflict' = [conflict EXCEPT ![c] = row] /\ row.of = conflict[c].of /\ row.reviewed = TRUE
  BY <1>2, <1>3 DEF Conflict
<1> QED BY <1>1, <1>4 DEF RowsGrow, SomeReviewed

\* A sheet whose flag is set, or that is altered, is kept.
LEMMA SheetUnchanged == UNCHANGED session => SheetKept
BY DEF SheetKept

LEMMA SheetFlagged ==
  ASSUME TypeInv, session' = [session EXCEPT !.flag = "FLAGGED"]
  PROVE  SheetKept /\ session'.flag = "FLAGGED"
<1>1. session \in Session
  BY DEF TypeInv, TypeOK
<1> QED BY <1>1 DEF Session, SheetKept

LEMMA SheetMarked ==
  ASSUME NEW s, session.st = "none", session' \in Official(s), UNCHANGED conflict
  PROVE  Marked(s)
<1> DEFINE row(b) == [st |-> "official", by |-> s, altered |-> b, flag |-> "NONE", locked |-> FALSE]
<1>1. \E b : session' = row(b)
  BY Zenon DEF Official
<1>2. \A b : row(b).st = "official" /\ row(b).by = s /\ row(b).flag = "NONE"
  OBVIOUS
<1> QED BY <1>1, <1>2 DEF Marked

\* A request that answers, and one that goes on.
LEMMA Ended ==
  ASSUME TypeInv, NEW p \in Requests, Answer(p), UNCHANGED <<receipt, overdue>>,
         \/ UNCHANGED <<session, conflict>>
         \/ proc[p].sub \in Direct /\ SheetKept /\ RowsGrow(proc[p].sub)
         \/ proc[p].sub \in Direct /\ Marked(proc[p].sub)
  PROVE  Ends(p)
<1>1. proc \in Procs
  BY DEF TypeInv, TypeOK, Procs
<1>2. proc'[p] = Idle /\ Only(p)
  BY <1>1, Answers DEF Only
<1> QED BY <1>2, SheetUnchanged, RowsUnchanged DEF Ends

LEMMA Advanced ==
  ASSUME TypeInv, NEW p \in Requests, proc[p].pc # "idle", NEW pc \in Places, Goto(p, pc)
  PROVE  /\ Only(p) /\ proc[p] \in Request /\ proc'[p] \in Request
         /\ proc'[p].sub = proc[p].sub /\ proc'[p].lease = proc[p].lease
         /\ proc'[p].seen = proc[p].seen /\ proc'[p].conflict = proc[p].conflict
         /\ proc'[p].pc = pc
<1>1. proc \in Procs
  BY DEF TypeInv, TypeOK, Procs
<1>2. /\ proc[p] \in Request /\ proc'[p] = [proc[p] EXCEPT !.pc = pc] /\ proc'[p] \in Request
      /\ Only(p)
  BY <1>1, Goes DEF Only
<1>3. /\ [proc[p] EXCEPT !.pc = pc].sub = proc[p].sub
      /\ [proc[p] EXCEPT !.pc = pc].lease = proc[p].lease
      /\ [proc[p] EXCEPT !.pc = pc].seen = proc[p].seen
      /\ [proc[p] EXCEPT !.pc = pc].conflict = proc[p].conflict
      /\ [proc[p] EXCEPT !.pc = pc].pc = pc
  BY <1>2 DEF Request
<1> QED BY <1>2, <1>3

LEMMA Started ==
  ASSUME TypeInv, NEW p \in Requests, NEW s \in Submissions, NEW pc \in Places,
         NEW l \in 0..MaxLease, Start(p, s, pc, l)
  PROVE  /\ Only(p) /\ proc'[p] \in Request /\ proc'[p].pc = pc /\ proc'[p].sub = s
         /\ proc'[p].lease = l
<1>1. proc \in Procs /\ MaxConflicts \in Nat
  BY ConstantsAssumption DEF TypeInv, TypeOK, Procs
<1>2. /\ proc'[p] = [pc |-> pc, sub |-> s, lease |-> l, seen |-> "none", conflict |-> 0]
      /\ proc'[p] \in Request /\ Only(p)
  BY <1>1, Starts DEF Only
<1> QED BY <1>2

LEMMA Replayed ==
  ASSUME TypeInv, NEW p \in Requests, NEW d \in Drafts, Replay(p, d),
         UNCHANGED <<session, receipt, overdue, conflict>>
  PROVE  Ends(p) \/ Takes(p)
<1>1. d \in Submissions /\ receipt[d].lease \in 0..MaxLease /\ "reconcile" \in Places
  BY DEF TypeInv, TypeOK, Receipt, Submissions, Places
<1>2. CASE receipt[d].st = "PROCESSING" /\ overdue[d]
  <2>1. Start(p, d, "reconcile", receipt[d].lease)
    BY <1>2 DEF Replay
  <2>2. /\ Only(p) /\ proc'[p] \in Request /\ proc'[p].pc = "reconcile" /\ proc'[p].sub = d
        /\ proc'[p].lease = receipt[d].lease
    BY <1>1, <2>1, Started
  <2> QED BY <1>2, <2>2 DEF Takes
<1>3. CASE ~(receipt[d].st = "PROCESSING" /\ overdue[d])
  BY <1>3, Ended DEF Replay
<1> QED BY <1>2, <1>3

LEMMA ReserveMoves ==
  ASSUME TypeInv, NEW p \in Requests, Reserve(p)
  PROVE  Ends(p) \/ Takes(p) \/ \E d \in Drafts : Reserves(p, d)
<1>1. proc[p].pc = "reserve" /\ proc[p].sub \in Drafts
  BY DEF Reserve, TypeInv, Limits, Carries, OfDrafts
<1>2. PICK d \in Drafts : d = proc[p].sub
  BY <1>1
<1>3. CASE receipt[d].st = "none"
  <2>1. /\ receipt' = [receipt EXCEPT ![d] = [st |-> "PROCESSING", lease |-> 1, conflict |-> 0]]
        /\ Start(p, d, "read", 1) /\ UNCHANGED <<session, overdue, conflict>>
    BY <1>2, <1>3 DEF Reserve
  <2>2. d \in Submissions /\ 1 \in 0..MaxLease /\ "read" \in Places
    BY ConstantsAssumption DEF Submissions, Places, Working
  <2>3. /\ Only(p) /\ proc'[p] \in Request /\ proc'[p].pc = "read" /\ proc'[p].sub = d
        /\ proc'[p].lease = 1
    BY <2>1, <2>2, Started
  <2>4. /\ receipt'[d].st = "PROCESSING" /\ receipt'[d].lease = 1 /\ receipt'[d].conflict = 0
        /\ \A e \in Drafts \ {d} : receipt'[e] = receipt[e]
    BY <2>1 DEF TypeInv, TypeOK
  <2> QED BY <1>1, <1>3, <2>1, <2>3, <2>4 DEF Reserves, OnlyOf
<1>4. CASE receipt[d].st # "none"
  <2>1. Replay(p, d) /\ UNCHANGED <<session, receipt, overdue, conflict>>
    BY <1>2, <1>4 DEF Reserve
  <2> QED BY <2>1, Replayed
<1> QED BY <1>3, <1>4

LEMMA RenewMoves ==
  ASSUME TypeInv, NEW p \in Requests, Renew(p)
  PROVE  Ends(p) \/ \E d \in Drafts : Renews(p, d)
<1>1. proc[p].pc = "renew" /\ proc[p].sub \in Drafts /\ proc[p].lease < MaxLease
  BY DEF Renew, TypeInv, Limits, Carries, OfDrafts
<1>2. PICK d \in Drafts : d = proc[p].sub
  BY <1>1
<1>3. CASE HoldsLease(p)
  <2>1. /\ receipt' = [receipt EXCEPT ![d].lease = proc[p].lease + 1]
        /\ overdue' = [overdue EXCEPT ![d] = FALSE]
        /\ Start(p, d, "read", proc[p].lease + 1) /\ UNCHANGED <<session, conflict>>
    BY <1>2, <1>3 DEF Renew
  <2>2. receipt[d].st = "PROCESSING" /\ receipt[d].lease = proc[p].lease
    BY <1>2, <1>3 DEF HoldsLease
  <2>3. /\ receipt[d] \in Receipt /\ receipt[d].lease \in Nat /\ proc[p].lease + 1 \in 0..MaxLease
        /\ d \in Submissions /\ "read" \in Places
    BY <1>1, <2>2, ConstantsAssumption DEF TypeInv, TypeOK, Receipt, Submissions, Places, Working
  <2>4. /\ Only(p) /\ proc'[p] \in Request /\ proc'[p].pc = "read" /\ proc'[p].sub = d
        /\ proc'[p].lease = proc[p].lease + 1
    BY <2>1, <2>3, Started
  <2>5. PICK r : r = [receipt[d] EXCEPT !.lease = proc[p].lease + 1]
    OBVIOUS
  <2>6. r.st = receipt[d].st /\ r.conflict = receipt[d].conflict /\ r.lease = proc[p].lease + 1
    BY <2>3, <2>5 DEF Receipt
  <2>7. receipt' = [receipt EXCEPT ![d] = r]
    BY <2>1, <2>5
  <2>8. /\ receipt'[d] = r /\ ~overdue'[d] /\ OnlyOf(d)
    BY <2>1, <2>7 DEF OnlyOf, TypeInv, TypeOK
  <2> QED BY <1>1, <1>2, <1>3, <2>1, <2>2, <2>4, <2>6, <2>8 DEF Renews
<1>4. CASE ~HoldsLease(p)
  <2>1. Answer(p) /\ UNCHANGED <<session, receipt, overdue, conflict>>
    BY <1>4 DEF Renew
  <2> QED BY <2>1, Ended
<1> QED BY <1>3, <1>4

LEMMA SettleMoves ==
  ASSUME TypeInv, NEW p \in Requests, Complete(p) \/ Confirm(p) \/ Refuse(p)
  PROVE  Ends(p) \/ \E d \in Drafts : Settled(p, d)
<1>1. PICK st, c : /\ Settle(p, st, c) /\ proc[p].pc \in {"complete", "confirm", "refuse"}
                   /\ proc[p].pc = "complete" => st = Outcome(proc[p].conflict) /\ c = proc[p].conflict
                   /\ proc[p].pc = "confirm" => st = "ACCEPTED" /\ c = 0
                   /\ proc[p].pc = "refuse" => st = "REJECTED" /\ c = 0
  BY DEF Complete, Confirm, Refuse
<1>2. proc[p].sub \in Drafts
  BY <1>1 DEF TypeInv, Limits, Carries, OfDrafts
<1>3. PICK d \in Drafts : d = proc[p].sub
  BY <1>2
<1>4. Answer(p) /\ UNCHANGED <<session, overdue, conflict>>
  BY <1>1 DEF Settle
<1>5. CASE HoldsLease(p)
  <2>1. /\ receipt' = [receipt EXCEPT ![d].st = st, ![d].conflict = c]
        /\ receipt[d].st = "PROCESSING"
    BY <1>1, <1>3, <1>5 DEF Settle, HoldsLease
  <2>2. receipt[d] \in Receipt
    BY DEF TypeInv, TypeOK
  <2>3. PICK r : r = [receipt[d] EXCEPT !.st = st, !.conflict = c]
    OBVIOUS
  <2>4. r.st = st /\ r.conflict = c /\ r.lease = receipt[d].lease
    BY <2>2, <2>3 DEF Receipt
  <2>5. receipt' = [receipt EXCEPT ![d] = r]
    BY <2>1, <2>3
  <2>6. receipt'[d] = r /\ \A e \in Drafts \ {d} : receipt'[e] = receipt[e]
    BY <2>5 DEF TypeInv, TypeOK
  <2>7. proc'[p] = Idle /\ Only(p)
    BY <1>4, Answers DEF Only, TypeInv, TypeOK, Procs
  <2>8. Decides(p, d)
    BY <1>1, <1>3, <2>1, <2>4, <2>6 DEF Decides
  <2> QED BY <1>3, <1>4, <1>5, <2>4, <2>6, <2>7, <2>8 DEF Settled, OnlyOf
<1>6. CASE ~HoldsLease(p)
  <2>1. UNCHANGED receipt
    BY <1>1, <1>6 DEF Settle
  <2> QED BY <1>4, <2>1, Ended
<1> QED BY <1>5, <1>6

LEMMA ReadMoves ==
  ASSUME TypeInv, NEW p \in Requests, ReadSession(p)
  PROVE  Ends(p) \/ Advances(p)
<1>1. proc[p].pc = "read" /\ UNCHANGED <<session, receipt, overdue, conflict>>
  BY DEF ReadSession
<1>2. proc[p] \in Request /\ {"submit", "refuse"} \subseteq Places
  BY <1>1, RequestType DEF Places, Working
<1>3. CASE Refusal(p)
  <2>1. CASE Answer(p)
    BY <1>1, <2>1, Ended
  <2>2. CASE Goto(p, "refuse")
    <3>1. /\ Only(p) /\ proc'[p] \in Request /\ proc'[p].pc = "refuse"
          /\ proc'[p].sub = proc[p].sub /\ proc'[p].lease = proc[p].lease
      BY <1>1, <1>2, <2>2, Advanced
    <3> QED BY <1>1, <1>2, <3>1 DEF Advances, Passes
  <2> QED BY <1>3, <2>1, <2>2 DEF Refusal
<1>4. CASE ~Refusal(p)
  <2>1. proc' = [proc EXCEPT ![p].pc = "submit", ![p].seen = session.st]
    BY <1>4 DEF ReadSession
  <2>2. PICK r : r = [proc[p] EXCEPT !.pc = "submit", !.seen = session.st]
    OBVIOUS
  <2>3. session.st \in {"none", "unmarked", "official"}
    BY DEF TypeInv, TypeOK, Session
  <2>4. /\ r \in Request /\ r.pc = "submit" /\ r.seen = session.st /\ r.sub = proc[p].sub
        /\ r.lease = proc[p].lease
    BY <1>2, <2>2, <2>3 DEF Request
  <2>5. proc' = [proc EXCEPT ![p] = r]
    BY <2>1, <2>2
  <2>6. proc'[p] = r /\ Only(p)
    BY <2>5 DEF Only, TypeInv, TypeOK
  <2> QED BY <1>1, <1>2, <2>4, <2>6 DEF Advances, Passes
<1> QED BY <1>3, <1>4

LEMMA LinkMoves ==
  ASSUME TypeInv, NEW p \in Requests, LinkConflict(p)
  PROVE  Advances(p)
<1>1. /\ proc[p].pc = "link" /\ UNCHANGED <<session, receipt, overdue, conflict>>
      /\ proc' = [proc EXCEPT ![p].pc = "complete", ![p].conflict = Len(conflict)]
  BY DEF LinkConflict
<1>2. proc[p] \in Request /\ Len(conflict) \in 0..MaxConflicts /\ "complete" \in Places
  <2>1. Len(conflict) \in Nat /\ Len(conflict) <= MaxConflicts /\ MaxConflicts \in Nat
    BY LenProperties, ConstantsAssumption DEF TypeInv, TypeOK, Limits
  <2> QED BY <1>1, <2>1, RequestType DEF Places, Working
<1>3. PICK r : r = [proc[p] EXCEPT !.pc = "complete", !.conflict = Len(conflict)]
  OBVIOUS
<1>4. /\ r \in Request /\ r.pc = "complete" /\ r.conflict = Len(conflict) /\ r.sub = proc[p].sub
      /\ r.lease = proc[p].lease
  BY <1>2, <1>3 DEF Request
<1>5. proc' = [proc EXCEPT ![p] = r]
  BY <1>1, <1>3
<1>6. proc'[p] = r /\ Only(p)
  BY <1>5 DEF Only, TypeInv, TypeOK
<1> QED BY <1>1, <1>2, <1>4, <1>6 DEF Advances, Passes

LEMMA SubmitMoves ==
  ASSUME OrdinaryMarking, TypeInv, SheetInv, NEW p \in Requests, Submit(p)
  PROVE  Ends(p) \/ Advances(p)
<1>1. /\ proc[p].pc = "submit" /\ proc[p].seen # "unmarked" /\ UNCHANGED <<receipt, overdue>>
      /\ proc[p].sub \in Submissions /\ {"complete", "race", "link"} \subseteq Places
  BY RequestType DEF Submit, SheetInv, Places, Working
<1>2. PICK s \in Submissions : s = proc[p].sub
  BY <1>1
<1>3. CASE session.st = "none" /\ session' \in Official(s) /\ UNCHANGED conflict
           /\ (IF s \in Drafts THEN Goto(p, "complete") ELSE Answer(p))
  <2>1. Marked(s)
    BY <1>3, SheetMarked
  <2>2. CASE s \in Drafts
    <3>1. /\ Only(p) /\ proc[p] \in Request /\ proc'[p] \in Request /\ proc'[p].pc = "complete"
          /\ proc'[p].sub = proc[p].sub /\ proc'[p].lease = proc[p].lease
      BY <1>1, <1>3, <2>2, Advanced
    <3> QED BY <1>1, <1>2, <2>1, <3>1 DEF Advances, Passes
  <2>3. CASE s \notin Drafts
    <3>1. s \in Direct /\ Answer(p)
      BY <1>3, <2>3 DEF Submissions
    <3> QED BY <1>1, <1>2, <2>1, <3>1, Ended
  <2> QED BY <2>2, <2>3
<1>4. CASE session.st # "none" /\ Goto(p, "race") /\ UNCHANGED <<session, conflict>>
  <2>1. /\ Only(p) /\ proc[p] \in Request /\ proc'[p] \in Request /\ proc'[p].pc = "race"
        /\ proc'[p].sub = proc[p].sub /\ proc'[p].lease = proc[p].lease
    BY <1>1, <1>4, Advanced
  <2> QED BY <1>1, <1>4, <2>1 DEF Advances, Passes
<1>5. CASE /\ proc[p].seen = "official" /\ Len(conflict) < MaxConflicts
           /\ conflict' = Preserved(s) /\ session' = [session EXCEPT !.flag = "FLAGGED"]
           /\ IF s \in Drafts THEN Goto(p, "link") ELSE Answer(p)
  <2>1. SheetKept
    BY <1>5, SheetFlagged
  <2>2. RowsGrow(s) /\ DOMAIN conflict' # {}
    BY <1>5, RowAdded DEF Preserved
  <2>3. CASE s \in Drafts
    <3>1. /\ Only(p) /\ proc[p] \in Request /\ proc'[p] \in Request /\ proc'[p].pc = "link"
          /\ proc'[p].sub = proc[p].sub /\ proc'[p].lease = proc[p].lease
      BY <1>1, <1>5, <2>3, Advanced
    <3> QED BY <1>1, <1>2, <1>5, <2>1, <2>2, <3>1 DEF Advances, Passes
  <2>4. CASE s \notin Drafts
    <3>1. s \in Direct /\ Answer(p)
      BY <1>5, <2>4 DEF Submissions
    <3> QED BY <1>1, <1>2, <2>1, <2>2, <3>1, Ended
  <2> QED BY <2>3, <2>4
<1> QED BY <1>1, <1>2, <1>3, <1>4, <1>5, Zenon DEF Submit, Fills

LEMMA RaceMoves ==
  ASSUME TypeInv, NEW p \in Requests, RaceConflict(p) \/ RaceFlag(p) \/ RaceReadBack(p)
  PROVE  Ends(p) \/ Advances(p)
<1>1. /\ proc[p].pc # "idle" /\ UNCHANGED <<receipt, overdue>>
      /\ proc[p].sub \in Submissions /\ {"flag", "readback", "link", "complete"} \subseteq Places
  BY RequestType DEF RaceConflict, RaceFlag, RaceReadBack, Places, Working
<1>2. CASE RaceConflict(p)
  <2>1. PICK s \in Submissions : s = proc[p].sub
    BY <1>1
  <2>2. /\ proc[p].pc = "race" /\ Len(conflict) < MaxConflicts /\ conflict' = Preserved(s)
        /\ UNCHANGED session /\ Goto(p, "flag")
    BY <1>2, <2>1 DEF RaceConflict, Kept
  <2>3. RowsGrow(s) /\ DOMAIN conflict' # {}
    BY <2>2, RowAdded DEF Preserved
  <2>4. /\ Only(p) /\ proc[p] \in Request /\ proc'[p] \in Request /\ proc'[p].pc = "flag"
        /\ proc'[p].sub = proc[p].sub /\ proc'[p].lease = proc[p].lease
    BY <1>1, <2>2, Advanced
  <2> QED BY <1>1, <2>1, <2>2, <2>3, <2>4 DEF Advances, Passes
<1>3. CASE RaceFlag(p)
  <2>1. /\ proc[p].pc = "flag" /\ SheetKept /\ session'.flag = "FLAGGED" /\ UNCHANGED conflict
    BY <1>3, SheetFlagged DEF RaceFlag
  <2>2. CASE proc[p].sub \in Drafts
    <3>1. Goto(p, "readback")
      BY <1>3, <2>2 DEF RaceFlag
    <3>2. /\ Only(p) /\ proc[p] \in Request /\ proc'[p] \in Request /\ proc'[p].pc = "readback"
          /\ proc'[p].sub = proc[p].sub /\ proc'[p].lease = proc[p].lease
      BY <1>1, <3>1, Advanced
    <3> QED BY <1>1, <2>1, <3>2 DEF Advances, Passes
  <2>3. CASE proc[p].sub \notin Drafts
    <3>1. Answer(p) /\ proc[p].sub \in Direct
      BY <1>1, <1>3, <2>3 DEF RaceFlag, Submissions
    <3> QED BY <1>1, <2>1, <3>1, Ended, RowsUnchanged
  <2> QED BY <2>2, <2>3
<1>4. CASE RaceReadBack(p)
  <2>1. PICK pc \in {"link", "complete"} :
          /\ Goto(p, pc) /\ (pc = "complete" => session.flag # "FLAGGED")
          /\ proc[p].pc = "readback" /\ UNCHANGED <<session, conflict>>
    BY <1>4 DEF RaceReadBack
  <2>2. pc \in Places
    BY <1>1, <2>1
  <2>3. /\ Only(p) /\ proc[p] \in Request /\ proc'[p] \in Request /\ proc'[p].pc = pc
        /\ proc'[p].sub = proc[p].sub /\ proc'[p].lease = proc[p].lease
    BY <1>1, <2>1, <2>2, Advanced
  <2> QED BY <1>1, <2>1, <2>3 DEF Advances, Passes
<1> QED BY <1>2, <1>3, <1>4

LEMMA ReconcileMoves ==
  ASSUME TypeInv, NEW p \in Requests, Reconcile(p)
  PROVE  Ends(p) \/ Advances(p)
<1>1. /\ proc[p].pc = "reconcile" /\ UNCHANGED <<session, receipt, overdue, conflict>>
      /\ {"confirm", "renew"} \subseteq Places
  BY DEF Reconcile, Places
<1>2. CASE Answer(p)
  BY <1>1, <1>2, Ended
<1>3. ASSUME NEW pc \in {"confirm", "renew"}, Goto(p, pc),
             pc = "confirm" <=> MatchesOfficial(proc[p].sub)
      PROVE  Advances(p)
  <2>1. /\ Only(p) /\ proc[p] \in Request /\ proc'[p] \in Request /\ proc'[p].pc = pc
        /\ proc'[p].sub = proc[p].sub /\ proc'[p].lease = proc[p].lease
    BY <1>1, <1>3, Advanced
  <2> QED BY <1>1, <1>3, <2>1 DEF Advances, Passes
<1>4. \/ Answer(p)
      \/ Goto(p, "confirm") /\ MatchesOfficial(proc[p].sub)
      \/ Goto(p, "renew") /\ ~MatchesOfficial(proc[p].sub)
  BY DEF Reconcile
<1> QED BY <1>2, <1>3, <1>4

\* What is not a request's: reviews, overrides, corrections, the cutoff and time.
LEMMA OthersMove ==
  ASSUME OrdinaryMarking, TypeInv, ReviewsHaveConflicts,
         \/ \E c \in DOMAIN conflict, b \in BOOLEAN : ReviewConflict(c, b)
         \/ ReviewSession
         \/ \E b \in BOOLEAN : OverrideSession(b)
         \/ ApproveCorrection
         \/ \E b \in BOOLEAN : RunCutoff(b)
         \/ LockPasses
         \/ \E d \in Drafts : ReceiptAges(d)
         \/ UNCHANGED vars
  PROVE  Rests
<1>t. session \in Session
  BY DEF TypeInv, TypeOK
<1>1. ASSUME NEW c \in DOMAIN conflict, NEW b \in BOOLEAN, ReviewConflict(c, b) PROVE Rests
  BY <1>1, RowReviewed, SheetUnchanged DEF ReviewConflict, Rests
<1>2. CASE ReviewSession
  <2>1. session' = [session EXCEPT !.flag = "REVIEWED"] /\ reviewer.pc = "session"
    BY <1>2 DEF ReviewSession
  <2>2. SheetKept
    BY <1>t, <2>1 DEF Session, SheetKept
  <2> QED BY <1>2, <2>2, RowsUnchanged DEF ReviewSession, Rests
<1>3. ASSUME NEW b \in BOOLEAN, OverrideSession(b) PROVE Rests
  <2>1. /\ session' = [session EXCEPT !.altered = TRUE, !.flag = "REVIEWED"]
        /\ Len(conflict) < MaxConflicts
        /\ conflict' = Append(conflict, [of |-> None, reviewed |-> TRUE])
        /\ UNCHANGED <<proc, receipt, overdue>>
    BY <1>3 DEF OverrideSession
  <2>2. RowsGrow(None) /\ SomeReviewed'
    BY <2>1, RowAdded
  <2>3. SheetKept
    BY <1>t, <2>1, <2>2 DEF Session, SheetKept
  <2> QED BY <2>1, <2>2, <2>3 DEF Rests
<1>4. CASE ApproveCorrection
  <2>1. SheetKept
    BY <1>4, <1>t DEF ApproveCorrection, Session, SheetKept
  <2> QED BY <1>4, <2>1, RowsUnchanged DEF ApproveCorrection, Rests
<1>5. ASSUME NEW b \in BOOLEAN, RunCutoff(b) PROVE Rests
  <2>1. SheetKept
    BY <1>5, <1>t DEF RunCutoff, Session, SheetKept
  <2> QED BY <1>5, <2>1, RowsUnchanged DEF RunCutoff, Rests
<1>6. CASE LockPasses
  <2>1. SheetKept
    BY <1>6, <1>t DEF LockPasses, Session, SheetKept
  <2> QED BY <1>6, <2>1, RowsUnchanged DEF LockPasses, Rests
<1>7. CASE (\E d \in Drafts : ReceiptAges(d)) \/ UNCHANGED vars
  BY <1>7, SheetUnchanged, RowsUnchanged DEF ReceiptAges, vars, Rests
<1> QED BY <1>1, <1>2, <1>3, <1>4, <1>5, <1>6, <1>7

LEMMA ReviewMoves ==
  ASSUME TypeInv, ReviewsHaveConflicts, ReviewReceipts \/ OverrideReceipts
  PROVE  Reviewed
<1>1. UNCHANGED <<proc, session, overdue, conflict>>
  BY DEF ReviewReceipts, OverrideReceipts
<1>2. ASSUME NEW d \in Drafts
      PROVE  \/ receipt'[d] = receipt[d]
             \/ /\ receipt[d].conflict # 0 /\ receipt'[d].conflict = receipt[d].conflict
                /\ receipt'[d].st \in {"ACCEPTED", "REJECTED"}
                /\ receipt'[d].lease = receipt[d].lease
  <2>1. receipt[d] \in Receipt
    BY DEF TypeInv, TypeOK
  <2>2. \/ receipt'[d] = receipt[d]
        \/ /\ receipt[d].conflict # 0
           /\ \E st \in {"ACCEPTED", "REJECTED"} : receipt'[d] = [receipt[d] EXCEPT !.st = st]
    <3>1. CASE ReviewReceipts
      <4>1. reviewer.conflict # 0
        BY <3>1 DEF ReviewReceipts, ReviewsHaveConflicts
      <4>2. CASE receipt[d].conflict = reviewer.conflict
        BY <3>1, <4>1, <4>2 DEF ReviewReceipts
      <4>3. CASE receipt[d].conflict # reviewer.conflict
        BY <3>1, <4>3 DEF ReviewReceipts
      <4> QED BY <4>2, <4>3
    <3>2. CASE OverrideReceipts
      <4>1. CASE receipt[d].st = "CONFLICTED"
        BY <3>2, <4>1 DEF OverrideReceipts, ReviewsHaveConflicts
      <4>2. CASE receipt[d].st # "CONFLICTED"
        BY <3>2, <4>2 DEF OverrideReceipts
      <4> QED BY <4>1, <4>2
    <3> QED BY <3>1, <3>2
  <2> QED BY <2>1, <2>2 DEF Receipt
<1> QED BY <1>1, <1>2 DEF Reviewed

LEMMA EveryStepIsMove ==
  ASSUME OrdinaryMarking, TypeInv, SheetInv, ReviewsHaveConflicts, [Next]_vars
  PROVE  Move
<1>1. ASSUME NEW p \in Requests,
             \/ \E d \in Drafts : ReceiveDraft(p, d)
             \/ \E s \in Direct : ReceiveDirect(p, s)
             \/ Crash(p)
      PROVE  Ends(p) \/ Takes(p)
  <2>1. ASSUME NEW d \in Drafts, ReceiveDraft(p, d) PROVE Ends(p) \/ Takes(p)
    <3>1. UNCHANGED <<session, receipt, overdue, conflict>>
      BY <2>1 DEF ReceiveDraft
    <3>2. CASE Start(p, d, "reserve", 0)
      <4>1. d \in Submissions /\ "reserve" \in Places /\ 0 \in 0..MaxLease
        BY ConstantsAssumption DEF Submissions, Places
      <4>2. Only(p) /\ proc'[p] \in Request /\ proc'[p].pc = "reserve"
        BY <3>2, <4>1, Started
      <4> QED BY <3>1, <4>2 DEF Takes
    <3>3. CASE Replay(p, d)
      BY <3>1, <3>3, Replayed
    <3> QED BY <2>1, <3>2, <3>3 DEF ReceiveDraft
  <2>2. ASSUME NEW s \in Direct, ReceiveDirect(p, s) PROVE Takes(p)
    <3>1. s \in Submissions /\ "read" \in Places /\ 0 \in 0..MaxLease
      BY ConstantsAssumption DEF Submissions, Places, Working
    <3>2. Start(p, s, "read", 0) /\ UNCHANGED <<session, receipt, overdue, conflict>>
      BY <2>2 DEF ReceiveDirect
    <3>3. Only(p) /\ proc'[p] \in Request /\ proc'[p].pc = "read" /\ proc'[p].sub = s
      BY <3>1, <3>2, Started
    <3> QED BY <3>2, <3>3 DEF Takes
  <2>3. CASE Crash(p)
    BY <2>3, Ended DEF Crash
  <2> QED BY <1>1, <2>1, <2>2, <2>3
<1>2. ASSUME NEW p \in Requests, RequestStep(p)
      PROVE  \/ Ends(p) \/ Takes(p) \/ Advances(p)
             \/ \E d \in Drafts : Reserves(p, d) \/ Settled(p, d) \/ Renews(p, d)
  BY <1>2, ReserveMoves, RenewMoves, SettleMoves, ReadMoves, LinkMoves, SubmitMoves, RaceMoves,
     ReconcileMoves, Zenon DEF RequestStep
<1>3. ASSUME NEW d \in Drafts, LeaseExpires(d) PROVE Expires(d)
  BY <1>3 DEF LeaseExpires, Expires
<1> QED
  BY <1>1, <1>2, <1>3, OthersMove, ReviewMoves, Zenon DEF Next, Move

-----------------------------------------------------------------------------
(* One request works on a receipt: no request outlives its lease *)

Punctual == "slow" \notin Faults

WorksOn(p, d) == proc[p].pc \in Working /\ proc[p].sub = d
Retries(p, d) == proc[p].pc \in {"reconcile", "confirm", "renew"} /\ proc[p].sub = d

\* A request that works holds the lease in time and alone; one that reconciles
\* holds a lease that ran out, or none.
LeaseInv ==
  \A d \in Drafts :
    /\ \A p \in Requests :
         /\ WorksOn(p, d) => /\ receipt[d].st = "PROCESSING" /\ ~overdue[d]
                             /\ receipt[d].lease = proc[p].lease
         /\ Retries(p, d) => /\ receipt[d].st # "none" /\ proc[p].lease <= receipt[d].lease
                             /\ HoldsLease(p) => overdue[d]
    /\ \A p, q \in Requests : WorksOn(p, d) /\ WorksOn(q, d) => p = q
    /\ receipt[d].st = "none" => ~overdue[d]
    /\ receipt[d].st \in {"none", "PROCESSING"} => receipt[d].conflict = 0

LEMMA LeaseStep ==
  ASSUME Punctual, TypeInv, TypeInv', LeaseInv, Move
  PROVE  LeaseInv'
<1> DEFINE Slot(p, d) == /\ proc'[p].pc \in Working /\ proc'[p].sub = d =>
                              /\ receipt'[d].st = "PROCESSING" /\ ~overdue'[d]
                              /\ receipt'[d].lease = proc'[p].lease
                         /\ proc'[p].pc \in {"reconcile", "confirm", "renew"} /\ proc'[p].sub = d =>
                              /\ receipt'[d].st # "none" /\ proc'[p].lease <= receipt'[d].lease
                              /\ receipt'[d].st = "PROCESSING" /\ receipt'[d].lease = proc'[p].lease
                                   => overdue'[d]
           Alone(p, q, d) == (/\ proc'[p].pc \in Working /\ proc'[p].sub = d
                              /\ proc'[q].pc \in Working /\ proc'[q].sub = d) => p = q
           Row(d) == /\ receipt'[d].st = "none" => ~overdue'[d]
                     /\ receipt'[d].st \in {"none", "PROCESSING"} => receipt'[d].conflict = 0
<1>g. ASSUME \A d \in Drafts : /\ Row(d)
                               /\ \A p \in Requests : Slot(p, d)
                               /\ \A p, q \in Requests : Alone(p, q, d)
      PROVE  LeaseInv'
  BY <1>g DEF LeaseInv, WorksOn, Retries, HoldsLease
<1>i. ASSUME NEW d \in Drafts
      PROVE  /\ \A p \in Requests :
                  /\ proc[p].pc \in Working /\ proc[p].sub = d =>
                       /\ receipt[d].st = "PROCESSING" /\ ~overdue[d]
                       /\ receipt[d].lease = proc[p].lease
                  /\ proc[p].pc \in {"reconcile", "confirm", "renew"} /\ proc[p].sub = d =>
                       /\ receipt[d].st # "none" /\ proc[p].lease <= receipt[d].lease
                       /\ receipt[d].st = "PROCESSING" /\ receipt[d].lease = proc[p].lease
                            => overdue[d]
             /\ \A p, q \in Requests :
                  (/\ proc[p].pc \in Working /\ proc[p].sub = d
                   /\ proc[q].pc \in Working /\ proc[q].sub = d) => p = q
             /\ receipt[d].st = "none" => ~overdue[d]
             /\ receipt[d].st \in {"none", "PROCESSING"} => receipt[d].conflict = 0
             /\ receipt[d].lease \in Nat
  <2>1. receipt[d].lease \in Nat
    BY ConstantsAssumption DEF TypeInv, TypeOK, Receipt
  <2>2. ASSUME NEW p \in Requests, proc[p].pc \in Working, proc[p].sub = d
        PROVE  /\ receipt[d].st = "PROCESSING" /\ ~overdue[d] /\ receipt[d].lease = proc[p].lease
               /\ \A q \in Requests : proc[q].pc \in Working /\ proc[q].sub = d => p = q
    BY <2>2 DEF LeaseInv, WorksOn
  <2>3. ASSUME NEW p \in Requests, proc[p].pc \in {"reconcile", "confirm", "renew"},
               proc[p].sub = d
        PROVE  /\ receipt[d].st # "none" /\ proc[p].lease <= receipt[d].lease
               /\ receipt[d].st = "PROCESSING" /\ receipt[d].lease = proc[p].lease => overdue[d]
    BY <2>3 DEF LeaseInv, Retries, HoldsLease
  <2>4. /\ receipt[d].st = "none" => ~overdue[d]
        /\ receipt[d].st \in {"none", "PROCESSING"} => receipt[d].conflict = 0
    BY DEF LeaseInv
  <2> QED BY <2>1, <2>2, <2>3, <2>4
<1>t. \A p \in Requests : proc[p].pc # "idle" => proc[p].lease \in Nat
  BY RequestType
<1>n. /\ Idle.pc \notin Working /\ Idle.pc \notin {"reconcile", "confirm", "renew"}
      /\ Working = {"read", "submit", "race", "flag", "readback", "link", "complete", "refuse"}
  BY DEF Idle, Working
<1>d. Direct \cap Drafts = {}
  BY ConstantsAssumption
<1>k. ASSUME UNCHANGED <<receipt, overdue>>,
             \A q \in Requests :
               /\ proc'[q].pc \in Working =>
                    /\ proc[q].pc \in Working
                    /\ proc'[q].sub = proc[q].sub /\ proc'[q].lease = proc[q].lease
               /\ proc'[q].pc \in {"reconcile", "confirm", "renew"} =>
                    /\ proc[q].pc \in {"reconcile", "confirm", "renew"}
                    /\ proc'[q].sub = proc[q].sub /\ proc'[q].lease = proc[q].lease
      PROVE  LeaseInv'
  <2>1. ASSUME NEW d \in Drafts, NEW p \in Requests PROVE Slot(p, d)
    BY <1>k, <1>i, <2>1
  <2>2. ASSUME NEW d \in Drafts, NEW p \in Requests, NEW q \in Requests PROVE Alone(p, q, d)
    BY <1>k, <1>i, <2>2
  <2>3. ASSUME NEW d \in Drafts PROVE Row(d)
    BY <1>k, <1>i, <2>3
  <2> QED BY <2>1, <2>2, <2>3, <1>g
<1>1. CASE Rests
  BY <1>1, <1>k DEF Rests
<1>2. CASE Reviewed
  <2>1. ASSUME NEW d \in Drafts, receipt'[d] # receipt[d]
        PROVE  /\ receipt[d].st \notin {"none", "PROCESSING"} /\ receipt'[d].lease = receipt[d].lease
               /\ receipt'[d].st \notin {"none", "PROCESSING"}
    BY <1>2, <1>i, <2>1 DEF Reviewed
  <2> QED BY <1>2, <1>i, <1>g, <2>1 DEF Reviewed
<1>3. ASSUME NEW p \in Requests, Ends(p) PROVE LeaseInv'
  <2>1. proc'[p] = Idle /\ \A q \in Requests : q # p => proc'[q] = proc[q]
    BY <1>3 DEF Ends, Only
  <2> QED BY <1>3, <2>1, <1>k, <1>n DEF Ends
<1>4. ASSUME NEW p \in Requests, Takes(p) PROVE LeaseInv'
  <2>1. /\ Only(p) /\ UNCHANGED <<receipt, overdue>>
        /\ proc'[p].pc \in Working => proc'[p].sub \notin Drafts
        /\ proc'[p].pc \in {"reconcile", "confirm", "renew"} =>
             /\ receipt[proc'[p].sub].st = "PROCESSING" /\ overdue[proc'[p].sub]
             /\ proc'[p].lease = receipt[proc'[p].sub].lease
    BY <1>4, <1>n, <1>d DEF Takes
  <2>2. \A q \in Requests : q # p => proc'[q] = proc[q]
    BY <2>1 DEF Only
  <2>3. \A d \in Drafts : receipt[d].lease <= receipt[d].lease
    BY <1>i
  <2>4. ASSUME NEW d \in Drafts, NEW q \in Requests PROVE Slot(q, d)
    <3>1. CASE q = p
      BY <2>1, <2>3, <3>1, <1>i
    <3>2. CASE q # p
      BY <2>1, <2>2, <3>2, <1>i
    <3> QED BY <3>1, <3>2
  <2>5. ASSUME NEW d \in Drafts, NEW q \in Requests, NEW r \in Requests PROVE Alone(q, r, d)
    BY <2>1, <2>2, <2>5, <1>i
  <2>6. ASSUME NEW d \in Drafts PROVE Row(d)
    BY <2>1, <1>i, <2>6
  <2> QED BY <2>4, <2>5, <2>6, <1>g
<1>5. ASSUME NEW p \in Requests, Advances(p) PROVE LeaseInv'
  <2>1. /\ Only(p) /\ UNCHANGED <<receipt, overdue>>
        /\ proc'[p].sub = proc[p].sub /\ proc'[p].lease = proc[p].lease
        /\ \/ proc[p].pc \in Working /\ proc'[p].pc \in Working
           \/ proc[p].pc = "reconcile" /\ proc'[p].pc \in {"confirm", "renew"}
    BY <1>5, <1>n DEF Advances, Passes
  <2>2. \A q \in Requests : q # p => proc'[q] = proc[q]
    BY <2>1 DEF Only
  <2> QED BY <2>1, <2>2, <1>k, <1>n
<1>6. ASSUME NEW p \in Requests, NEW e \in Drafts, Reserves(p, e) PROVE LeaseInv'
  <2>1. /\ \A q \in Requests : q # p => proc'[q] = proc[q]
        /\ \A d \in Drafts : d # e => receipt'[d] = receipt[d] /\ overdue'[d] = overdue[d]
        /\ overdue'[e] = overdue[e] /\ receipt[e].st = "none"
        /\ proc'[p].pc = "read" /\ proc'[p].sub = e /\ proc'[p].lease = 1
        /\ receipt'[e].st = "PROCESSING" /\ receipt'[e].lease = 1 /\ receipt'[e].conflict = 0
    BY <1>6 DEF Reserves, Only, OnlyOf
  <2> QED BY <2>1, <1>i, <1>g, <1>n
<1>7. ASSUME NEW p \in Requests, NEW e \in Drafts, Settled(p, e) PROVE LeaseInv'
  <2>1. /\ \A q \in Requests : q # p => proc'[q] = proc[q]
        /\ \A d \in Drafts : d # e => receipt'[d] = receipt[d] /\ overdue'[d] = overdue[d]
        /\ overdue'[e] = overdue[e] /\ proc'[p] = Idle
        /\ receipt'[e].st \notin {"none", "PROCESSING"} /\ receipt'[e].lease = receipt[e].lease
        /\ receipt[e].st = "PROCESSING" /\ receipt[e].lease = proc[p].lease
        /\ proc[p].sub = e /\ proc[p].pc \in {"complete", "refuse", "confirm"}
    BY <1>7 DEF Settled, Only, OnlyOf, Decides, Outcome, HoldsLease
  <2>2. \A q \in Requests : q # p /\ proc[q].pc \in Working => proc[q].sub # e
    BY <2>1, <1>i, <1>n
  <2>3. ASSUME NEW d \in Drafts, NEW q \in Requests PROVE Slot(q, d)
    <3>1. CASE q = p
      BY <2>1, <3>1, <1>n
    <3>2. CASE q # p
      BY <2>1, <2>2, <3>2, <1>i
    <3> QED BY <3>1, <3>2
  <2>4. ASSUME NEW d \in Drafts, NEW q \in Requests, NEW r \in Requests PROVE Alone(q, r, d)
    BY <2>1, <1>n, <1>i
  <2>5. ASSUME NEW d \in Drafts PROVE Row(d)
    BY <2>1, <1>i
  <2> QED BY <2>3, <2>4, <2>5, <1>g
<1>8. ASSUME NEW p \in Requests, NEW e \in Drafts, Renews(p, e) PROVE LeaseInv'
  <2>1. /\ \A q \in Requests : q # p => proc'[q] = proc[q]
        /\ \A d \in Drafts : d # e => receipt'[d] = receipt[d] /\ overdue'[d] = overdue[d]
        /\ ~overdue'[e] /\ proc'[p].pc = "read" /\ proc'[p].sub = e
        /\ proc'[p].lease = receipt[e].lease + 1
        /\ receipt'[e].st = "PROCESSING" /\ receipt'[e].lease = receipt[e].lease + 1
        /\ receipt'[e].conflict = receipt[e].conflict
        /\ receipt[e].st = "PROCESSING" /\ receipt[e].lease = proc[p].lease
        /\ proc[p].sub = e /\ proc[p].pc = "renew"
    BY <1>8 DEF Renews, Only, OnlyOf, HoldsLease
  <2>2. overdue[e]
    BY <2>1, <1>i
  <2>3. \A q \in Requests : proc[q].pc \in Working => proc[q].sub # e
    BY <2>2, <1>i
  <2> QED BY <2>1, <2>3, <1>i, <1>t, <1>g, <1>n
<1>9. ASSUME NEW e \in Drafts, Expires(e) PROVE LeaseInv'
  <2>1. /\ UNCHANGED <<proc, receipt>> /\ receipt[e].st = "PROCESSING"
        /\ ~Alive(e, receipt[e].lease)
        /\ overdue'[e] = TRUE /\ \A d \in Drafts : d # e => overdue'[d] = overdue[d]
    BY <1>9 DEF Expires, Punctual, TypeInv, TypeOK
  <2>2. \A q \in Requests : proc[q].pc \in Working => proc[q].sub # e
    BY <2>1, <1>i DEF Alive
  <2> QED BY <2>1, <2>2, <1>i, <1>g
<1> QED BY <1>1, <1>2, <1>3, <1>4, <1>5, <1>6, <1>7, <1>8, <1>9 DEF Move

-----------------------------------------------------------------------------
(* A punctual retry recognises what the first attempt did *)

\* A request that may still refuse, preserve or save the marks of the official
\* sheet's own submission.
Unsettled(p) ==
  \/ proc[p].pc \in Working \ {"complete"}
  \/ proc[p].pc = "renew" /\ HoldsLease(p)

\* RejectedIsNotOfficial and SelfConflictOnlyAfterChange need that no such
\* request is left once the sheet is official, unless the sheet was changed.
MarksInv ==
  /\ RejectedIsNotOfficial
  /\ SelfConflictOnlyAfterChange
  /\ session.by \in Drafts => receipt[session.by].st # "none"
  /\ \A c \in DOMAIN conflict : conflict[c].of \in Drafts => session.st # "none"
  /\ \A p \in Requests :
       /\ proc[p].pc = "submit" /\ proc[p].seen = "official" => session.st # "none"
       /\ proc[p].pc = "race" => session.st # "none"
       /\ proc[p].sub \in Drafts /\ proc[p].sub = session.by /\ Unsettled(p) => session.altered

LEMMA MarksStep ==
  ASSUME TypeInv, SheetInv, LeaseInv, MarksInv, Move
  PROVE  MarksInv'
<1> DEFINE Own(p, d) == /\ proc'[p].sub = d /\ session'.by = d
                        /\ \/ proc'[p].pc \in Working \ {"complete"}
                           \/ /\ proc'[p].pc = "renew" /\ receipt'[d].st = "PROCESSING"
                              /\ receipt'[d].lease = proc'[p].lease
           Slot(p) == /\ \/ proc'[p].pc = "submit" /\ proc'[p].seen = "official"
                         \/ proc'[p].pc = "race"
                         => session'.st # "none"
                      /\ \A d \in Drafts : Own(p, d) => session'.altered
           Rows == \A c \in DOMAIN conflict' :
                     conflict'[c].of \in Drafts =>
                       session'.st # "none" /\ (session'.by = conflict'[c].of => session'.altered)
           Receipts == \A d \in Drafts :
                         session'.by = d =>
                           /\ receipt'[d].st # "none"
                           /\ receipt'[d].st = "REJECTED" /\ receipt'[d].conflict = 0
                                => session'.altered
<1>g. ASSUME Rows, Receipts, \A p \in Requests : Slot(p) PROVE MarksInv'
  <2>1. RejectedIsNotOfficial' /\ SelfConflictOnlyAfterChange'
    BY <1>g DEF RejectedIsNotOfficial, SelfConflictOnlyAfterChange
  <2>2. ASSUME NEW p \in Requests, proc'[p].sub \in Drafts, proc'[p].sub = session'.by,
               Unsettled(p)'
        PROVE  session'.altered
    BY <1>g, <2>2 DEF Unsettled, HoldsLease
  <2>3. session'.by \in Drafts => receipt'[session'.by].st # "none"
    BY <1>g
  <2>4. \A c \in DOMAIN conflict' : conflict'[c].of \in Drafts => session'.st # "none"
    BY <1>g
  <2> QED BY <1>g, <2>1, <2>2, <2>3, <2>4 DEF MarksInv
<1> HIDE DEF Own
<1>o. \A p \in Requests, d \in Drafts :
        Own(p, d) <=> /\ proc'[p].sub = d /\ session'.by = d
                      /\ \/ proc'[p].pc \in Working \ {"complete"}
                         \/ /\ proc'[p].pc = "renew" /\ receipt'[d].st = "PROCESSING"
                            /\ receipt'[d].lease = proc'[p].lease
  BY DEF Own
<1>n. /\ Working = {"read", "submit", "race", "flag", "readback", "link", "complete", "refuse"}
      /\ Idle.pc = "idle" /\ None \notin Drafts /\ Direct \cap Drafts = {}
  BY ConstantsAssumption DEF Working, Idle
<1>p. ASSUME NEW p \in Requests
      PROVE  /\ \/ proc[p].pc = "submit" /\ proc[p].seen = "official"
                \/ proc[p].pc = "race"
                => session.st # "none"
             /\ \A d \in Drafts :
                  (/\ proc[p].sub = d /\ session.by = d
                   /\ \/ proc[p].pc \in Working \ {"complete"}
                      \/ /\ proc[p].pc = "renew" /\ receipt[d].st = "PROCESSING"
                         /\ receipt[d].lease = proc[p].lease) => session.altered
  BY DEF MarksInv, Unsettled, HoldsLease
<1>c. ASSUME NEW c \in DOMAIN conflict, conflict[c].of \in Drafts
      PROVE  session.st # "none" /\ (session.by = conflict[c].of => session.altered)
  BY <1>c DEF MarksInv, SelfConflictOnlyAfterChange
<1>r. ASSUME NEW d \in Drafts, session.by = d
      PROVE  /\ receipt[d].st # "none"
             /\ receipt[d].st = "REJECTED" /\ receipt[d].conflict = 0 => session.altered
  BY <1>r DEF MarksInv, RejectedIsNotOfficial
\* Sheet and rows stay but for rows of nobody, and a slot stays or leaves.
<1>s. ASSUME SheetKept, NEW s, RowsGrow(s), s \in Drafts => session.st # "none",
             s \in Drafts /\ session.by = s => session.altered
      PROVE  Rows
  BY <1>s, <1>c DEF SheetKept, RowsGrow
<1>m. ASSUME NEW s \in Direct, Marked(s) PROVE Rows /\ Receipts
  BY <1>m, <1>c, <1>n DEF Marked
<1>u. ASSUME UNCHANGED receipt, SheetKept PROVE Receipts
  BY <1>u, <1>r DEF SheetKept
<1>q. ASSUME NEW q \in Requests, proc'[q] = proc[q], UNCHANGED receipt, SheetKept PROVE Slot(q)
  BY <1>q, <1>p, <1>o DEF SheetKept
<1>e. ASSUME UNCHANGED <<session, conflict>> PROVE SheetKept /\ Rows
  BY <1>e, <1>c, SheetUnchanged
<1>1. CASE Rests
  BY <1>1, <1>s, <1>u, <1>q, <1>g, <1>n DEF Rests
<1>2. CASE Reviewed
  <2>1. ASSUME NEW d \in Drafts
        PROVE  /\ receipt'[d].st = "PROCESSING" => receipt'[d] = receipt[d]
               /\ receipt'[d] # receipt[d] => receipt'[d].conflict # 0 /\ receipt'[d].st # "none"
    BY <1>2 DEF Reviewed
  <2>2. \A q \in Requests : Slot(q)
    BY <1>2, <2>1, <1>p, <1>o DEF Reviewed
  <2>3. Receipts
    BY <1>2, <2>1, <1>r DEF Reviewed
  <2> QED BY <1>2, <2>2, <2>3, <1>e, <1>g DEF Reviewed
<1>3. ASSUME NEW p \in Requests, Ends(p) PROVE MarksInv'
  <2>1. /\ \A q \in Requests : q # p => proc'[q] = proc[q]
        /\ proc'[p].pc = "idle" /\ UNCHANGED <<receipt, overdue>>
    BY <1>3, <1>n DEF Ends, Only
  <2>2. Slot(p)
    BY <2>1, <1>o, <1>n
  <2>3. CASE SheetKept /\ (RowsGrow(None) \/ (proc[p].sub \in Direct /\ RowsGrow(proc[p].sub)))
    <3>1. PICK s : s \notin Drafts /\ RowsGrow(s)
      BY <2>3, <1>n
    <3>2. Rows
      BY <2>3, <3>1, <1>s
    <3> QED BY <2>1, <2>2, <2>3, <3>2, <1>u, <1>q, <1>g
  <2>4. CASE proc[p].sub \in Direct /\ Marked(proc[p].sub)
    <3>1. PICK s \in Direct : Marked(s)
      BY <2>4
    <3>2. \A q \in Requests : Slot(q)
      BY <3>1, <1>o, <1>n DEF Marked
    <3> QED BY <3>1, <3>2, <1>m, <1>g
  <2> QED BY <1>3, <2>3, <2>4 DEF Ends
<1>4. ASSUME NEW p \in Requests, Takes(p) PROVE MarksInv'
  <2>1. /\ \A q \in Requests : q # p => proc'[q] = proc[q]
        /\ UNCHANGED <<session, receipt, conflict>>
        /\ \/ proc'[p].pc = "read" /\ proc'[p].sub \notin Drafts
           \/ proc'[p].pc \in {"reserve", "reconcile"}
    BY <1>4, <1>n DEF Takes, Only
  <2>2. Slot(p)
    BY <2>1, <1>o, <1>n
  <2> QED BY <2>1, <2>2, <1>e, <1>u, <1>q, <1>g
<1>5. ASSUME NEW p \in Requests, NEW d \in Drafts, Reserves(p, d) PROVE MarksInv'
  <2>1. /\ \A q \in Requests : q # p => proc'[q] = proc[q]
        /\ UNCHANGED <<session, conflict>> /\ receipt[d].st = "none"
        /\ proc'[p].pc = "read" /\ proc'[p].sub = d
        /\ receipt'[d].st = "PROCESSING"
        /\ \A x \in Drafts : x # d => receipt'[x] = receipt[x]
    BY <1>5 DEF Reserves, Only, OnlyOf
  <2>2. session.by # d
    BY <2>1, <1>r
  <2>3. \A q \in Requests : Slot(q)
    <3>1. Slot(p)
      BY <2>1, <2>2, <1>o
    <3>2. ASSUME NEW q \in Requests, q # p PROVE Slot(q)
      BY <2>1, <2>2, <3>2, <1>p, <1>o
    <3> QED BY <3>1, <3>2
  <2>4. Receipts
    BY <2>1, <2>2, <1>r
  <2> QED BY <2>1, <2>3, <2>4, <1>e, <1>g
<1>6. ASSUME NEW p \in Requests, NEW d \in Drafts, Settled(p, d) PROVE MarksInv'
  <2>1. /\ \A q \in Requests : q # p => proc'[q] = proc[q]
        /\ UNCHANGED <<session, conflict>> /\ proc'[p].pc = "idle" /\ proc[p].sub = d
        /\ receipt'[d].st \notin {"none", "PROCESSING"}
        /\ receipt'[d].st = "REJECTED" => proc[p].pc = "refuse"
        /\ \A x \in Drafts : x # d => receipt'[x] = receipt[x]
    BY <1>6, <1>n DEF Settled, Only, OnlyOf, Decides, Outcome
  <2>2. \A q \in Requests : Slot(q)
    <3>1. Slot(p)
      BY <2>1, <1>o, <1>n
    <3>2. ASSUME NEW q \in Requests, q # p PROVE Slot(q)
      BY <2>1, <3>2, <1>p, <1>o
    <3> QED BY <3>1, <3>2
  <2>3. Receipts
    BY <2>1, <1>r, <1>p, <1>n
  <2> QED BY <2>1, <2>2, <2>3, <1>e, <1>g
<1>7. ASSUME NEW p \in Requests, NEW d \in Drafts, Renews(p, d) PROVE MarksInv'
  <2>1. /\ \A q \in Requests : q # p => proc'[q] = proc[q]
        /\ UNCHANGED <<session, conflict>> /\ proc'[p].pc = "read" /\ proc'[p].sub = d
        /\ proc[p].pc = "renew" /\ proc[p].sub = d
        /\ receipt[d].st = "PROCESSING" /\ receipt[d].lease = proc[p].lease
        /\ receipt'[d].st = "PROCESSING" /\ receipt'[d].lease = receipt[d].lease + 1
        /\ \A x \in Drafts : x # d => receipt'[x] = receipt[x]
    BY <1>7 DEF Renews, Only, OnlyOf, HoldsLease
  <2>2. receipt[d].lease \in Nat
    BY ConstantsAssumption DEF TypeInv, TypeOK, Receipt
  <2>3. ASSUME NEW q \in Requests, proc[q].pc = "renew", proc[q].sub = d
        PROVE  proc[q].lease \in Nat /\ proc[q].lease <= receipt[d].lease
    BY <2>3, RequestType DEF LeaseInv, Retries
  <2>4. Slot(p)
    BY <2>1, <1>o, <1>p
  <2>5. ASSUME NEW q \in Requests, q # p PROVE Slot(q)
    <3>1. proc[q].pc = "renew" /\ proc[q].sub = d => receipt'[d].lease # proc[q].lease
      BY <2>1, <2>2, <2>3
    <3> QED BY <2>1, <2>5, <3>1, <1>p, <1>o
  <2>6. Receipts
    BY <2>1, <1>r
  <2> QED BY <2>1, <2>4, <2>5, <2>6, <1>e, <1>g
<1>8. ASSUME NEW p \in Requests, Advances(p) PROVE MarksInv'
  <2>1. /\ \A q \in Requests : q # p => proc'[q] = proc[q]
        /\ UNCHANGED receipt /\ proc'[p].sub = proc[p].sub /\ proc'[p].lease = proc[p].lease
        /\ Passes(p)
    BY <1>8 DEF Advances, Only
  \* Where the sheet keeps its submission, p must not become unsettled.
  <2>k. ASSUME SheetKept, Rows, Slot(p) PROVE MarksInv'
    BY <2>1, <2>k, <1>u, <1>q, <1>g
  <2>2. CASE /\ proc[p].pc = "read" /\ proc'[p].pc \in {"submit", "refuse"}
             /\ UNCHANGED <<session, conflict>>
             /\ proc'[p].pc = "submit" => proc'[p].seen = session.st
    <3>1. Slot(p)
      BY <2>1, <2>2, <1>p, <1>o, <1>n
    <3> QED BY <2>2, <3>1, <1>e, <2>k
  <2>3. CASE proc[p].pc = "submit" /\ proc'[p].pc = "complete" /\ Marked(proc[p].sub)
    <3>1. PICK s : s = proc[p].sub
      OBVIOUS
    <3>2. /\ session.st = "none" /\ session'.by = s /\ session'.st = "official"
          /\ UNCHANGED conflict
      BY <2>3, <3>1 DEF Marked
    <3>3. Rows
      BY <3>2, <1>c
    <3>4. ASSUME s \in Drafts
          PROVE  /\ receipt[s].st = "PROCESSING" /\ ~overdue[s]
                 /\ \A q \in Requests : proc[q].pc \in Working /\ proc[q].sub = s => q = p
      BY <2>3, <3>1, <3>4, <1>n DEF LeaseInv, WorksOn
    <3>5. Receipts
      BY <2>1, <3>2, <3>4
    <3>6. ASSUME NEW q \in Requests PROVE Slot(q)
      <4>1. CASE q = p
        BY <2>3, <4>1, <1>o, <1>n, <3>2
      <4>2. CASE q # p
        <5>1. ASSUME s \in Drafts, proc[q].sub = s, proc[q].pc = "renew",
                     receipt[s].lease = proc[q].lease
              PROVE  FALSE
          BY <3>4, <5>1 DEF LeaseInv, Retries, HoldsLease
        <5> QED BY <2>1, <3>2, <3>4, <4>2, <5>1, <1>o
      <4> QED BY <4>1, <4>2
    <3> QED BY <3>3, <3>5, <3>6, <1>g
  <2>4. CASE /\ proc[p].pc = "submit" /\ proc'[p].pc = "race" /\ session.st # "none"
             /\ UNCHANGED <<session, conflict>>
    <3>1. Slot(p)
      BY <2>1, <2>4, <1>p, <1>o, <1>n
    <3> QED BY <2>4, <3>1, <1>e, <2>k
  <2>5. CASE /\ SheetKept /\ RowsGrow(proc[p].sub)
             /\ \/ proc[p].pc = "submit" /\ proc'[p].pc = "link" /\ proc[p].seen = "official"
                \/ proc[p].pc = "race" /\ proc'[p].pc = "flag"
    <3>1. PICK s : s = proc[p].sub
      OBVIOUS
    <3>2. session.st # "none" /\ (s \in Drafts /\ session.by = s => session.altered)
      BY <2>5, <3>1, <1>p, <1>n
    <3>3. Rows
      BY <2>5, <3>1, <3>2, <1>s
    <3>4. Slot(p)
      BY <2>1, <2>5, <3>1, <3>2, <1>o, <1>n DEF SheetKept
    <3> QED BY <2>5, <3>3, <3>4, <2>k
  <2>6. CASE /\ proc[p].pc = "flag" /\ proc'[p].pc = "readback" /\ SheetKept
             /\ UNCHANGED conflict
    <3>1. Rows
      BY <2>6, <1>c DEF SheetKept
    <3>2. Slot(p)
      BY <2>1, <2>6, <1>p, <1>o, <1>n DEF SheetKept
    <3> QED BY <2>6, <3>1, <3>2, <2>k
  <2>7. CASE /\ proc[p].pc \in {"readback", "link"} /\ proc'[p].pc \in {"link", "complete"}
             /\ UNCHANGED <<session, conflict>>
    <3>1. Slot(p)
      BY <2>1, <2>7, <1>p, <1>o, <1>n
    <3> QED BY <2>7, <3>1, <1>e, <2>k
  <2>8. CASE /\ proc[p].pc = "reconcile" /\ proc'[p].pc \in {"confirm", "renew"}
             /\ UNCHANGED <<session, conflict>>
             /\ proc'[p].pc = "confirm" <=> MatchesOfficial(proc[p].sub)
    <3>1. ASSUME proc'[p].pc = "renew", NEW d \in Drafts, proc[p].sub = d, session.by = d
          PROVE  session.altered
      BY <2>8, <3>1, <1>n DEF MatchesOfficial, SheetInv
    <3>2. Slot(p)
      BY <2>1, <2>8, <3>1, <1>o, <1>n
    <3> QED BY <2>8, <3>2, <1>e, <2>k
  <2> QED BY <2>1, <2>2, <2>3, <2>4, <2>5, <2>6, <2>7, <2>8, SheetUnchanged DEF Passes
<1>9. ASSUME NEW d \in Drafts, Expires(d) PROVE MarksInv'
  BY <1>9, <1>e, <1>u, <1>q, <1>g DEF Expires
<1> QED BY <1>1, <1>2, <1>3, <1>4, <1>5, <1>6, <1>7, <1>8, <1>9 DEF Move

RetryInv ==
  /\ TypeInv
  /\ SheetInv
  /\ ReviewsHaveConflicts
  /\ LeaseInv
  /\ MarksInv

LEMMA RetryInvariant ==
  ASSUME OrdinaryMarking, Punctual
  PROVE  Spec => []RetryInv
<1>1. Init => RetryInv
  <2>1. Init => LeaseInv /\ ReviewsHaveConflicts
    BY DEF Init, LeaseInv, ReviewsHaveConflicts, WorksOn, Retries, Idle, Working
  <2>2. Init => MarksInv
    BY ConstantsAssumption DEF Init, MarksInv, RejectedIsNotOfficial, SelfConflictOnlyAfterChange,
                               Unsettled, Idle, Working
  <2> QED BY <2>1, <2>2, TypeInit, SheetInit DEF RetryInv
<1>2. RetryInv /\ [Next]_vars => RetryInv'
  BY TypeStep, SheetStep, ReviewsStep, EveryStepIsMove, LeaseStep, MarksStep DEF RetryInv
<1> QED BY <1>1, <1>2, PTL DEF Spec

\* Where no request outlives its lease, a draft that is refused for good is not
\* the official sheet, unless leave, a correction or an override changed it.
THEOREM RejectionIsTrue ==
  ASSUME OrdinaryMarking, Punctual
  PROVE  Spec => []RejectedIsNotOfficial
<1>1. RetryInv => RejectedIsNotOfficial
  BY DEF RetryInv, MarksInv
<1> QED BY <1>1, RetryInvariant, PTL

\* Where no request outlives its lease, a retry never conflicts with its own
\* earlier success, unless the sheet was changed meanwhile.
THEOREM RetriesKnowThemselves ==
  ASSUME OrdinaryMarking, Punctual
  PROVE  Spec => []SelfConflictOnlyAfterChange
<1>1. RetryInv => SelfConflictOnlyAfterChange
  BY DEF RetryInv, MarksInv
<1> QED BY <1>1, RetryInvariant, PTL

-----------------------------------------------------------------------------
(* What is accepted is official, or was reviewed *)

Reviewing == reviewer.pc \in {"receipts", "session"}

\* A review of a conflict begins by marking its row.
LEMMA ReviewerStep ==
  ASSUME TypeInv, [Next]_vars, Reviewing'
  PROVE  Reviewing \/ SomeReviewed'
<1>1. ASSUME NEW c \in DOMAIN conflict, NEW b \in BOOLEAN, ReviewConflict(c, b)
      PROVE  SomeReviewed'
  <2>1. PICK row : row = [conflict[c] EXCEPT !.reviewed = TRUE]
    OBVIOUS
  <2>2. conflict' = [conflict EXCEPT ![c] = row]
    BY <1>1, <2>1 DEF ReviewConflict
  <2>3. conflict[c] \in Conflict
    BY DEF TypeInv, TypeOK
  <2>4. row.reviewed
    BY <2>1, <2>3 DEF Conflict
  <2>5. c \in DOMAIN conflict' /\ conflict'[c] = row
    BY <2>2 DEF TypeInv, TypeOK
  <2> QED BY <2>4, <2>5 DEF SomeReviewed
<1>2. CASE UNCHANGED reviewer
  BY <1>2 DEF Reviewing
<1>3. ASSUME NEW p \in Requests, \/ \E d \in Drafts : ReceiveDraft(p, d)
                                 \/ \E s \in Direct : ReceiveDirect(p, s)
                                 \/ Crash(p)
      PROVE  UNCHANGED reviewer
  BY <1>3 DEF ReceiveDraft, ReceiveDirect, Crash
<1>4. ASSUME NEW p \in Requests, RequestStep(p) PROVE UNCHANGED reviewer
  BY <1>4 DEF RequestStep, Reserve, ReadSession, Submit, RaceConflict, RaceFlag, RaceReadBack,
              LinkConflict, Complete, Refuse, Reconcile, Confirm, Renew, Settle
<1>5. CASE ReviewReceipts
  BY <1>5 DEF ReviewReceipts, Reviewing
<1>6. CASE ReviewSession \/ OverrideReceipts \/ \E b \in BOOLEAN : OverrideSession(b)
  <2>1. reviewer'.pc \in {"idle", "override"}
    BY <1>6 DEF ReviewSession, OverrideReceipts, OverrideSession, Idle
  <2> QED BY <2>1 DEF Reviewing
<1>7. CASE \/ ApproveCorrection
           \/ (\E b \in BOOLEAN : RunCutoff(b)) \/ LockPasses
           \/ (\E d \in Drafts : LeaseExpires(d) \/ ReceiptAges(d))
  BY <1>7, <1>2 DEF ApproveCorrection, RunCutoff, LockPasses, LeaseExpires, ReceiptAges
<1>8. CASE UNCHANGED vars
  BY <1>8, <1>2 DEF vars
<1> QED BY <1>1, <1>2, <1>3, <1>4, <1>5, <1>6, <1>7, <1>8, Zenon DEF Next

\* What a request may rely on: a conflict row to link, the flag it set, the
\* sheet it found to be its draft's own.
Backed(p) ==
  /\ proc[p].pc \in {"flag", "readback", "link"} => DOMAIN conflict # {}
  /\ proc[p].pc \in {"race", "flag", "readback"} => session.st # "none"
  /\ proc[p].pc = "readback" => session.flag # "NONE"
  /\ proc[p].pc = "confirm" => session.by = proc[p].sub
  /\ proc[p].pc = "complete" /\ proc[p].conflict = 0 =>
       session.by = proc[p].sub \/ SomeReviewed

AcceptInv ==
  /\ Reviewing => SomeReviewed
  /\ session.flag = "REVIEWED" => SomeReviewed
  /\ \A p \in Requests : Backed(p)
  /\ AcceptedIsOfficial

\* No move takes a review back, or the flag of a sheet that exists.
LEMMA FlagsStay ==
  ASSUME TypeInv, Move
  PROVE  /\ SomeReviewed => SomeReviewed'
         /\ session.st # "none" => /\ session'.st # "none"
                                   /\ session.flag # "NONE" => session'.flag # "NONE"
         /\ session'.flag = "REVIEWED" =>
              session.flag = "REVIEWED" \/ reviewer.pc = "session" \/ SomeReviewed'
<1> DEFINE Goal == /\ SomeReviewed => SomeReviewed'
                   /\ session.st # "none" => /\ session'.st # "none"
                                             /\ session.flag # "NONE" => session'.flag # "NONE"
                   /\ session'.flag = "REVIEWED" =>
                        session.flag = "REVIEWED" \/ reviewer.pc = "session" \/ SomeReviewed'
<1>1. ASSUME NEW s, RowsGrow(s), SheetKept PROVE Goal
  <2>1. SomeReviewed => SomeReviewed'
    BY <1>1 DEF RowsGrow, SomeReviewed
  <2> QED BY <1>1, <2>1 DEF SheetKept
<1>2. ASSUME UNCHANGED <<session, conflict>> PROVE Goal
  BY <1>2 DEF SomeReviewed
<1>3. ASSUME NEW s, Marked(s) PROVE Goal
  BY <1>3 DEF Marked, SomeReviewed
<1> HIDE DEF Goal
<1>4. ASSUME NEW p \in Requests, Ends(p) PROVE Goal
  BY <1>4, <1>1, <1>3 DEF Ends
<1>5. ASSUME NEW p \in Requests, Passes(p) PROVE Goal
  <2>1. CASE UNCHANGED <<session, conflict>>
    BY <2>1, <1>2
  <2>2. CASE Marked(proc[p].sub)
    BY <2>2, <1>3
  <2>3. CASE SheetKept /\ RowsGrow(proc[p].sub)
    BY <2>3, <1>1
  <2>4. CASE UNCHANGED conflict /\ SheetKept
    <3>1. RowsGrow(None)
      BY <2>4, RowsUnchanged
    <3> QED BY <2>4, <3>1, <1>1
  <2>5. CASE UNCHANGED session /\ RowsGrow(proc[p].sub)
    BY <2>5, <1>1, SheetUnchanged
  <2> QED BY <1>5, <2>1, <2>2, <2>3, <2>4, <2>5 DEF Passes
<1>6. Goal
  BY <1>1, <1>2, <1>4, <1>5
     DEF Move, Rests, Reviewed, Takes, Advances, Reserves, Settled, Renews, Expires
<1> QED BY <1>6 DEF Goal

LEMMA AcceptStep ==
  ASSUME TypeInv, TypeInv', SheetStays, RowsStay, Reviewing' => Reviewing \/ SomeReviewed',
         AcceptInv, Move
  PROVE  AcceptInv'
<1> DEFINE Slot(p) ==
             /\ proc'[p].pc \in {"flag", "readback", "link"} => DOMAIN conflict' # {}
             /\ proc'[p].pc \in {"race", "flag", "readback"} => session'.st # "none"
             /\ proc'[p].pc = "readback" => session'.flag # "NONE"
             /\ proc'[p].pc = "confirm" => session'.by = proc'[p].sub
             /\ proc'[p].pc = "complete" /\ proc'[p].conflict = 0 =>
                  session'.by = proc'[p].sub \/ SomeReviewed'
           Answered(d) == receipt'[d].st = "ACCEPTED" /\ receipt'[d].conflict = 0 =>
                            session'.by = d \/ SomeReviewed'
<1>f. /\ SomeReviewed => SomeReviewed'
      /\ session.st # "none" => /\ session'.st # "none"
                                /\ session.flag # "NONE" => session'.flag # "NONE"
      /\ session'.flag = "REVIEWED" => SomeReviewed'
      /\ Reviewing' => SomeReviewed'
  BY FlagsStay DEF AcceptInv, Reviewing
<1>g. ASSUME \A p \in Requests : Slot(p), \A d \in Drafts : Answered(d) PROVE AcceptInv'
  <2>1. \A p \in Requests : Backed(p)'
    BY <1>g DEF Backed
  <2>2. AcceptedIsOfficial'
    BY <1>g DEF AcceptedIsOfficial, SomeReviewed
  <2> QED BY <1>f, <2>1, <2>2 DEF AcceptInv
<1>b. \A d \in Drafts : session.by = d => session'.by = d
  BY ConstantsAssumption DEF SheetStays
<1>p. ASSUME NEW p \in Requests
      PROVE  /\ proc[p].pc \in {"flag", "readback", "link"} => DOMAIN conflict # {}
             /\ proc[p].pc \in {"race", "flag", "readback"} => session.st # "none"
             /\ proc[p].pc = "readback" => session.flag # "NONE"
             /\ proc[p].pc = "confirm" => session.by = proc[p].sub
             /\ proc[p].pc = "complete" /\ proc[p].conflict = 0 =>
                  session.by = proc[p].sub \/ SomeReviewed
             /\ proc[p].pc \in {"confirm", "complete", "readback", "link"} => proc[p].sub \in Drafts
  BY DEF AcceptInv, Backed, TypeInv, Limits, Carries, OfDrafts
<1>r. \A d \in Drafts : receipt[d].st = "ACCEPTED" /\ receipt[d].conflict = 0 =>
                          session.by = d \/ SomeReviewed
  BY DEF AcceptInv, AcceptedIsOfficial, SomeReviewed
<1>q. ASSUME NEW q \in Requests, proc'[q] = proc[q] PROVE Slot(q)
  BY <1>q, <1>p, <1>f, <1>b DEF RowsStay
<1>i. ASSUME NEW q \in Requests, proc'[q].pc \in {"idle", "read", "reserve", "reconcile"}
      PROVE  Slot(q)
  BY <1>i
<1>d. ASSUME NEW d \in Drafts,
             \/ receipt'[d] = receipt[d]
             \/ receipt'[d].st = "PROCESSING"
             \/ receipt'[d].conflict # 0
      PROVE  Answered(d)
  BY <1>d, <1>r, <1>f, <1>b
<1> HIDE DEF Slot, Answered
<1>n. Idle.pc = "idle"
  BY DEF Idle
<1>1. CASE Rests
  BY <1>1, <1>q, <1>d, <1>g DEF Rests
<1>2. CASE Reviewed
  BY <1>2, <1>q, <1>d, <1>g DEF Reviewed
<1>3. ASSUME NEW p \in Requests, Ends(p) \/ Takes(p) PROVE AcceptInv'
  <2>1. /\ UNCHANGED receipt /\ \A q \in Requests \ {p} : proc'[q] = proc[q]
        /\ proc'[p].pc \in {"idle", "read", "reserve", "reconcile"}
    BY <1>3, <1>n DEF Ends, Takes, Only
  <2> QED BY <2>1, <1>q, <1>i, <1>d, <1>g
<1>4. ASSUME NEW p \in Requests, NEW d \in Drafts, Reserves(p, d) \/ Renews(p, d)
      PROVE  AcceptInv'
  <2>1. /\ \A q \in Requests \ {p} : proc'[q] = proc[q]
        /\ proc'[p].pc = "read" /\ receipt'[d].st = "PROCESSING"
        /\ \A e \in Drafts \ {d} : receipt'[e] = receipt[e]
    BY <1>4 DEF Reserves, Renews, Only, OnlyOf
  <2> QED BY <2>1, <1>q, <1>i, <1>d, <1>g
<1>5. ASSUME NEW p \in Requests, NEW d \in Drafts, Settled(p, d) PROVE AcceptInv'
  <2>1. /\ \A q \in Requests \ {p} : proc'[q] = proc[q]
        /\ proc'[p].pc = "idle" /\ proc[p].sub = d
        /\ \A e \in Drafts \ {d} : receipt'[e] = receipt[e]
    BY <1>5, <1>n DEF Settled, Only, OnlyOf
  <2>2. receipt'[d].st = "ACCEPTED" /\ receipt'[d].conflict = 0 =>
          session.by = d \/ SomeReviewed
    BY <1>5, <2>1, <1>p DEF Settled, Decides, Outcome
  <2>3. Answered(d)
    BY <2>2, <1>f, <1>b DEF Answered
  <2> QED BY <2>1, <2>3, <1>q, <1>i, <1>d, <1>g
<1>6. ASSUME NEW p \in Requests, Advances(p) PROVE AcceptInv'
  <2>1. /\ \A q \in Requests \ {p} : proc'[q] = proc[q]
        /\ UNCHANGED receipt /\ proc'[p].sub = proc[p].sub /\ Passes(p)
        /\ proc'[p].pc \in Places
    BY <1>6 DEF Advances, Only, Request
  <2>2. Slot(p)
    <3>1. CASE proc[p].pc = "submit" /\ proc'[p].pc = "complete" /\ Marked(proc[p].sub)
      BY <3>1, <2>1 DEF Slot, Marked
    <3>2. CASE /\ proc[p].pc = "submit" /\ proc'[p].pc = "race" /\ session.st # "none"
      BY <3>2, <1>f DEF Slot
    <3>3. CASE proc[p].pc = "submit" /\ proc'[p].pc = "link" /\ DOMAIN conflict' # {}
      BY <3>3 DEF Slot
    <3>4. CASE proc[p].pc = "race" /\ proc'[p].pc = "flag" /\ DOMAIN conflict' # {}
      BY <3>4, <1>p, <1>f DEF Slot
    <3>5. CASE proc[p].pc = "flag" /\ proc'[p].pc = "readback" /\ session'.flag = "FLAGGED"
      BY <3>5, <1>p, <1>f DEF Slot, RowsStay
    <3>6. CASE /\ proc[p].pc = "readback" /\ proc'[p].pc \in {"link", "complete"}
               /\ UNCHANGED session
               /\ proc'[p].pc = "complete" => session.flag # "FLAGGED"
      <4>1. session.flag \in {"NONE", "FLAGGED", "REVIEWED"}
        BY DEF TypeInv, TypeOK, Session
      <4>2. proc'[p].pc = "complete" => session.flag = "REVIEWED"
        BY <3>6, <4>1, <1>p
      <4>3. proc'[p].pc = "complete" => SomeReviewed'
        BY <4>2, <1>f DEF AcceptInv
      <4> QED BY <3>6, <4>3, <1>p DEF Slot, RowsStay
    <3>7. CASE /\ proc[p].pc = "link" /\ proc'[p].pc = "complete"
               /\ proc'[p].conflict = Len(conflict)
      <4>1. Len(conflict) # 0
        BY <3>7, <1>p DEF TypeInv, TypeOK
      <4> QED BY <3>7, <4>1 DEF Slot
    <3>8. CASE /\ proc[p].pc = "reconcile" /\ proc'[p].pc \in {"confirm", "renew"}
               /\ proc'[p].pc = "confirm" <=> MatchesOfficial(proc[p].sub)
      <4>1. proc[p].sub \in Drafts
        BY <3>8 DEF TypeInv, Limits, Carries, OfDrafts
      <4>2. proc'[p].pc = "confirm" => session'.by = proc[p].sub
        BY <3>8, <4>1, <1>b DEF MatchesOfficial
      <4> QED BY <3>8, <4>2, <2>1 DEF Slot
    <3>9. CASE proc[p].pc = "read" /\ proc'[p].pc \in {"submit", "refuse"}
      BY <3>9 DEF Slot
    <3> QED BY <2>1, <3>1, <3>2, <3>3, <3>4, <3>5, <3>6, <3>7, <3>8, <3>9 DEF Passes
  <2> QED BY <2>1, <2>2, <1>q, <1>d, <1>g
<1>7. ASSUME NEW d \in Drafts, Expires(d) PROVE AcceptInv'
  BY <1>7, <1>q, <1>d, <1>g DEF Expires
<1> QED BY <1>1, <1>2, <1>3, <1>4, <1>5, <1>6, <1>7 DEF Move

\* Where a sheet without marks is locked and nobody may pass the lock, a draft
\* accepted without a conflict is the official sheet, or a reviewer acted on the
\* sheet: no reconciliation takes another submission's sheet for its own, and
\* no race is answered as a success.
THEOREM AcceptanceIsTrue ==
  ASSUME OrdinaryMarking
  PROVE  Spec => []AcceptedIsOfficial
<1> DEFINE Inv == TypeInv /\ SheetInv /\ ReviewsHaveConflicts /\ AcceptInv
<1>1. Init => Inv
  <2>1. Init => ReviewsHaveConflicts
    BY DEF Init, ReviewsHaveConflicts, Idle
  <2>2. Init => AcceptInv
    BY DEF Init, AcceptInv, Reviewing, Backed, AcceptedIsOfficial, Idle
  <2> QED BY <2>1, <2>2, TypeInit, SheetInit
<1>2. Inv /\ [Next]_vars => Inv'
  <2> SUFFICES ASSUME Inv, [Next]_vars PROVE Inv'
    OBVIOUS
  <2>1. TypeInv' /\ SheetInv' /\ SheetStays /\ RowsStay /\ ReviewsHaveConflicts' /\ Move
    BY TypeStep, SheetStep, RowsStep, ReviewsStep, EveryStepIsMove
  <2>2. Reviewing' => Reviewing \/ SomeReviewed'
    BY ReviewerStep
  <2> QED BY <2>1, <2>2, AcceptStep
<1>3. Inv => AcceptedIsOfficial
  BY DEF AcceptInv
<1> QED BY <1>1, <1>2, <1>3, PTL DEF Spec

=============================================================================
