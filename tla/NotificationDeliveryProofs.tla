---------------------- MODULE NotificationDeliveryProofs ----------------------
(***************************************************************************)
(* One delivery, for any number of workers, operators and provider         *)
(* reports.  Nobody is notified twice without a reason: the messages that  *)
(* are still possible are counted with those that were accepted, and only  *)
(* an event that is counted as a doubt makes room for one more.            *)
(***************************************************************************)
EXTENDS NotificationDelivery, FiniteSetTheorems, TLAPS

Bounded == Len(sent) <= MaxMessages

(***************************************************************************)
(* The messages that may still come without a doubt.  A run may send one,  *)
(* or give the attempt back so that another may: a run that has sent its   *)
(* message may not, and one that has not passed its check may only while   *)
(* its attempt is the row's.  Another one may come from the row's attempt  *)
(* when its job is still to be run, or when the row is open to a retry and *)
(* no run is under way for it.                                             *)
(***************************************************************************)
MaySend(r, attempt) ==
  \/ r.pc \in {"policy", "send"}
  \/ r.pc = "mark" /\ r.result # "SENT"
  \/ r.pc = "check" /\ r.attempt = attempt

Senders == {w \in Workers : MaySend(worker[w], row.attempt)}
RunsOf(a) == {w \in Workers : worker[w] # Idle /\ worker[w].attempt = a}

Opening ==
  \/ job[row.attempt].st \in {"none", "waiting", "delayed"}
  \/ row.status \in Pending /\ RunsOf(row.attempt) = {}

Chances == Cardinality(Senders) + (IF Opening THEN 1 ELSE 0)

\* No attempt runs, or waits to be handed over, before the row has reached it.
AttemptsReached ==
  /\ \A a \in Attempts : job[a].st # "none" => a <= row.attempt
  /\ \A w \in Workers : worker[w] # Idle => /\ worker[w].attempt <= row.attempt
                                            /\ job[worker[w].attempt].st # "none"
  /\ \A o \in Operators : operator[o] # Idle => operator[o].attempt <= row.attempt

MessagesCounted == Len(sent) + Chances <= 1 + doubts

DeliveryInv == TypeOK /\ Bounded /\ AttemptsReached /\ MessagesCounted

(***************************************************************************)
(* Without provider reports, which name no attempt, SENT is written by the *)
(* run of the row's attempt whose message was accepted.                    *)
(***************************************************************************)
AcceptedIn(msgs, a) == \E m \in DOMAIN msgs : msgs[m] = a

AcceptedInv ==
  /\ SentWasAccepted
  /\ \A w \in Workers :
       worker[w] # Idle /\ worker[w].pc = "mark" /\ worker[w].result = "SENT" =>
         AcceptedIn(sent, worker[w].attempt)

-----------------------------------------------------------------------------
(***************************************************************************)
(* Counting                                                                *)
(***************************************************************************)
LEMMA Counts ==
  ASSUME NEW S \in SUBSET Workers, NEW T \in SUBSET Workers
  PROVE  /\ Cardinality(S) \in Nat /\ Cardinality(T) \in Nat
         /\ T \subseteq S => Cardinality(T) <= Cardinality(S)
         /\ \A w \in S : T \subseteq S \ {w} => Cardinality(T) + 1 <= Cardinality(S)
         /\ \A w : T \subseteq S \cup {w} => Cardinality(T) <= Cardinality(S) + 1
<1>1. IsFiniteSet(S) /\ IsFiniteSet(T)
  BY FS_Subset, ConstantsAssumption
<1>2. Cardinality(S) \in Nat /\ Cardinality(T) \in Nat
  BY <1>1, FS_CardinalityType
<1>3. T \subseteq S => Cardinality(T) <= Cardinality(S)
  BY <1>1, FS_Subset
<1>4. ASSUME NEW w \in S, T \subseteq S \ {w} PROVE Cardinality(T) + 1 <= Cardinality(S)
  <2>1. /\ IsFiniteSet(S \ {w}) /\ Cardinality(S \ {w}) = Cardinality(S) - 1
    BY <1>1, FS_RemoveElement
  <2>2. Cardinality(T) <= Cardinality(S \ {w})
    BY <1>4, <2>1, FS_Subset
  <2> QED
    BY <1>2, <2>1, <2>2
<1>5. ASSUME NEW w, T \subseteq S \cup {w} PROVE Cardinality(T) <= Cardinality(S) + 1
  <2>1. /\ IsFiniteSet(S \cup {w})
        /\ Cardinality(S \cup {w}) = IF w \in S THEN Cardinality(S) ELSE Cardinality(S) + 1
    BY <1>1, FS_AddElement
  <2>2. Cardinality(T) <= Cardinality(S \cup {w})
    BY <1>5, <2>1, FS_Subset
  <2> QED
    BY <1>2, <2>1, <2>2
<1> QED
  BY <1>2, <1>3, <1>4, <1>5

\* What a step may do to the count: nothing; add a doubt; end a run; use up a
\* message; or start the run of the attempt that is open.
Unmoved == sent' = sent /\ doubts' = doubts

Kept == Senders' \subseteq Senders /\ (Opening' => Opening) /\ Unmoved
Doubted == Senders' \subseteq Senders /\ sent' = sent /\ doubts' = doubts + 1
Ended == Unmoved /\ \E w \in Senders : Senders' \subseteq Senders \ {w}
Entered == Unmoved /\ Opening /\ ~Opening' /\ \E w : Senders' \subseteq Senders \cup {w}
Used ==
  /\ Len(sent') = Len(sent) + 1 /\ (Opening' => Opening)
  /\ \/ doubts' = doubts /\ \E w \in Senders : Senders' \subseteq Senders \ {w}
     \/ doubts' = doubts + 1 /\ Senders' \subseteq Senders

LEMMA CountKept ==
  ASSUME TypeOK, MessagesCounted, Kept \/ Doubted \/ Ended \/ Entered \/ Used
  PROVE  MessagesCounted'
<1>1. PICK S : S = Senders
  OBVIOUS
<1>2. PICK T : T = Senders'
  OBVIOUS
<1>3. PICK o : o = IF Opening THEN 1 ELSE 0
  OBVIOUS
<1>4. PICK u : u = IF Opening' THEN 1 ELSE 0
  OBVIOUS
<1>5. S \in SUBSET Workers /\ T \in SUBSET Workers
  BY <1>1, <1>2 DEF Senders
<1>6. /\ Cardinality(S) \in Nat /\ Cardinality(T) \in Nat
      /\ T \subseteq S => Cardinality(T) <= Cardinality(S)
      /\ \A w \in S : T \subseteq S \ {w} => Cardinality(T) + 1 <= Cardinality(S)
      /\ \A w : T \subseteq S \cup {w} => Cardinality(T) <= Cardinality(S) + 1
  BY <1>5, Counts
<1>7. Len(sent) + (Cardinality(S) + o) <= 1 + doubts
  BY <1>1, <1>3 DEF MessagesCounted, Chances
<1>8. Len(sent) \in Nat /\ doubts \in Nat /\ o \in 0..1 /\ u \in 0..1
  BY <1>3, <1>4 DEF TypeOK
<1>9. Len(sent') + (Cardinality(T) + u) <= 1 + doubts'
  <2>1. CASE Kept
    BY <1>1, <1>2, <1>3, <1>4, <1>6, <1>7, <1>8, <2>1 DEF Kept, Unmoved
  <2>2. CASE Doubted
    BY <1>1, <1>2, <1>6, <1>7, <1>8, <2>2 DEF Doubted
  <2>3. CASE Ended
    BY <1>1, <1>2, <1>6, <1>7, <1>8, <2>3 DEF Ended, Unmoved
  <2>4. CASE Entered
    <3>1. o = 1 /\ u = 0
      BY <1>3, <1>4, <2>4 DEF Entered
    <3>2. Cardinality(T) <= Cardinality(S) + 1
      BY <1>1, <1>2, <1>6, <2>4 DEF Entered
    <3>3. sent' = sent /\ doubts' = doubts
      BY <2>4 DEF Entered, Unmoved
    <3> QED
      BY <1>6, <1>7, <1>8, <3>1, <3>2, <3>3
  <2>5. CASE Used
    BY <1>1, <1>2, <1>3, <1>4, <1>6, <1>7, <1>8, <2>5 DEF Used
  <2> QED
    BY <2>1, <2>2, <2>3, <2>4, <2>5
<1> QED
  BY <1>2, <1>4, <1>9 DEF MessagesCounted, Chances

\* A step that leaves the runs alone and the attempt where it is.
LEMMA RunsUnmoved ==
  ASSUME worker' = worker, row'.attempt = row.attempt
  PROVE  Senders' = Senders /\ RunsOf(row.attempt)' = RunsOf(row.attempt)
  BY DEF Senders, RunsOf

LEMMA RowWritten ==
  ASSUME DeliveryInv, row'.attempt = row.attempt,
         UNCHANGED <<job, worker>>,
         \/ Unmoved /\ (row'.status \in Pending => row.status \in Pending)
         \/ sent' = sent /\ doubts' = doubts + 1
  PROVE  MessagesCounted'
<1>1. Senders' = Senders /\ RunsOf(row.attempt)' = RunsOf(row.attempt)
  BY RunsUnmoved
<1>2. Kept \/ Doubted
  BY <1>1 DEF Kept, Doubted, Opening, Unmoved
<1> QED
  BY <1>2, CountKept DEF DeliveryInv

\* A step that changes the job of an attempt alone, to no better state.
LEMMA JobWritten ==
  ASSUME DeliveryInv, row'.attempt = row.attempt, row'.status = row.status, worker' = worker, Unmoved,
         \A a \in Attempts :
           job'[a].st \in {"none", "waiting", "delayed"} => job[a].st \in {"none", "waiting", "delayed"}
  PROVE  MessagesCounted'
<1>1. Senders' = Senders /\ RunsOf(row.attempt)' = RunsOf(row.attempt)
  BY RunsUnmoved
<1>2. row.attempt \in Attempts
  BY DEF DeliveryInv, TypeOK
<1>3. Kept
  BY <1>1, <1>2 DEF Kept, Opening
<1> QED
  BY <1>3, CountKept DEF DeliveryInv

-----------------------------------------------------------------------------
(***************************************************************************)
(* The first dispatch                                                      *)
(***************************************************************************)
RowType == [status : Statuses, attempt : Attempts, msg : Messages]

LEMMA RowWith ==
  ASSUME TypeOK, NEW s \in Statuses, row' = [row EXCEPT !.status = s]
  PROVE  /\ row' \in RowType /\ row'.attempt = row.attempt /\ row'.status = s
         /\ row'.msg = row.msg
  BY DEF TypeOK, RowType

LEMMA ReachedKept ==
  ASSUME AttemptsReached, row'.attempt = row.attempt, UNCHANGED <<job, worker, operator>>
  PROVE  AttemptsReached'
  BY DEF AttemptsReached

\* A job is added for an attempt the row has reached.
LEMMA EnqueuedType ==
  ASSUME TypeOK, NEW a \in Attempts
  PROVE  /\ Enqueued(a) \in [Attempts -> Job]
         /\ \A b \in Attempts : b # a => Enqueued(a)[b] = job[b]
         /\ job[a].st = "none" => Enqueued(a)[a].st = "waiting"
         /\ job[a].st # "none" => Enqueued(a)[a] = job[a]
  BY ConstantsAssumption DEF TypeOK, Enqueued, Job

LEMMA JobAdded ==
  ASSUME DeliveryInv, NEW a \in Attempts, a <= row.attempt, job' = Enqueued(a),
         UNCHANGED <<row, worker, sent, doubts>>,
         \A o \in Operators : operator'[o] # Idle => operator[o] # Idle /\ operator'[o].attempt = operator[o].attempt
  PROVE  AttemptsReached' /\ MessagesCounted' /\ job' \in [Attempts -> Job]
<1>1. /\ job' \in [Attempts -> Job]
      /\ \A b \in Attempts : b # a => job'[b] = job[b]
      /\ job[a].st = "none" => job'[a].st = "waiting"
      /\ job[a].st # "none" => job'[a] = job[a]
  BY EnqueuedType DEF DeliveryInv
<1>2. \A b \in Attempts : job'[b].st # "none" => b = a \/ job[b].st # "none"
  BY <1>1
<1>3. \A b \in Attempts : job[b].st # "none" => job'[b].st # "none"
  BY <1>1
<1>4. \A w \in Workers : worker[w] # Idle => worker[w].attempt \in Attempts
  BY DEF DeliveryInv, TypeOK, Run
<1>5. AttemptsReached'
  BY <1>2, <1>3, <1>4 DEF DeliveryInv, AttemptsReached
<1>6. MessagesCounted'
  BY <1>1, JobWritten DEF Unmoved
<1> QED
  BY <1>1, <1>5, <1>6

LEMMA DispatchKeeps == ASSUME DeliveryInv, Dispatch PROVE DeliveryInv'
<1>1. TypeOK /\ Bounded /\ AttemptsReached
  BY DEF DeliveryInv
<1>2. CASE row' = row /\ UNCHANGED <<job, worker, operator, callback, notice, quiet, nights, sent, doubts>>
  <2>1. TypeOK' /\ Bounded'
    BY <1>1, <1>2 DEF TypeOK, Bounded, Dispatch, DispatchPolicy, DispatchRecheck, DispatchHandoff,
       DispatchUnconfirmed
  <2>2. AttemptsReached' /\ MessagesCounted'
    BY <1>1, <1>2, ReachedKept, RowWritten DEF Unmoved
  <2> QED
    BY <2>1, <2>2 DEF DeliveryInv
<1>3. ASSUME NEW s \in {"SKIPPED", "FAILED", "RETRY_PENDING"}, FirstAttempt,
             row' = [row EXCEPT !.status = s], dispatcher' = "done",
             UNCHANGED <<job, worker, operator, callback, notice, quiet, nights, sent, doubts>>
      PROVE  DeliveryInv'
  <2>1. row' \in RowType /\ row'.attempt = row.attempt
    BY <1>1, <1>3, RowWith DEF Statuses
  <2>2. TypeOK' /\ Bounded'
    BY <1>1, <1>3, <2>1 DEF TypeOK, RowType, Bounded
  <2>3. row.status \in Pending
    BY <1>3 DEF FirstAttempt, Pending
  <2>4. AttemptsReached' /\ MessagesCounted'
    BY <1>1, <1>3, <2>1, <2>3, ReachedKept, RowWritten DEF Unmoved
  <2> QED
    BY <2>2, <2>4 DEF DeliveryInv
<1>4. CASE /\ job' = Enqueued(0) /\ dispatcher' \in {"done", "unconfirmed"}
           /\ UNCHANGED <<row, worker, operator, callback, notice, quiet, nights, sent, doubts>>
  <2>1. 0 \in Attempts /\ 0 <= row.attempt
    BY <1>1, ConstantsAssumption DEF Attempts, TypeOK
  <2>2. AttemptsReached' /\ MessagesCounted' /\ job' \in [Attempts -> Job]
    BY <1>4, <2>1, JobAdded
  <2>3. TypeOK' /\ Bounded'
    BY <1>1, <1>4, <2>2 DEF TypeOK, Bounded
  <2> QED
    BY <2>2, <2>3 DEF DeliveryInv
<1>5. CASE DispatchPolicy
  BY <1>2, <1>3, <1>5 DEF DispatchPolicy
<1>6. CASE DispatchRecheck
  BY <1>2, <1>6 DEF DispatchRecheck
<1>7. CASE DispatchHandoff
  BY <1>2, <1>4, <1>7 DEF DispatchHandoff
<1>8. CASE DispatchUnconfirmed
  BY <1>2, <1>3, <1>8 DEF DispatchUnconfirmed
<1> QED
  BY <1>5, <1>6, <1>7, <1>8 DEF Dispatch

-----------------------------------------------------------------------------
(***************************************************************************)
(* Workers                                                                 *)
(***************************************************************************)
LEMMA RunIsNotIdle == ASSUME NEW r \in Run PROVE r # Idle /\ r.pc # "idle" /\ r.attempt \in Attempts
  BY DEF Run, Idle

\* The run of worker w goes on as r, for the same attempt, or ends.
RunMoves(w, r) ==
  LET a == worker[w].attempt
  IN  /\ worker[w] # Idle /\ worker' = [worker EXCEPT ![w] = r]
      /\ r # Idle => r \in Run /\ r.attempt = a
      /\ row'.attempt = row.attempt /\ operator' = operator
      /\ job' \in [Attempts -> Job] /\ job'[a].st # "none"
      /\ \A b \in Attempts : b # a => job'[b] = job[b]

LEMMA RunMoved ==
  ASSUME DeliveryInv, NEW w \in Workers, NEW r, RunMoves(w, r)
  PROVE  /\ AttemptsReached' /\ worker' \in [Workers -> {Idle} \cup Run]
         /\ worker[w] \in Run /\ worker[w].attempt \in Attempts
         /\ ~MaySend(r, row.attempt) => Senders' \subseteq Senders \ {w}
         /\ w \in Senders => Senders' \subseteq Senders
         /\ r # Idle => RunsOf(row.attempt)' = RunsOf(row.attempt)
         /\ worker[w].attempt # row.attempt =>
              RunsOf(row.attempt)' = RunsOf(row.attempt) /\ job'[row.attempt] = job[row.attempt]
<1>1. /\ worker \in [Workers -> {Idle} \cup Run] /\ row.attempt \in Attempts /\ AttemptsReached
  BY DEF DeliveryInv, TypeOK
<1>2. /\ worker[w] # Idle /\ worker' = [worker EXCEPT ![w] = r]
      /\ r # Idle => r \in Run /\ r.attempt = worker[w].attempt
      /\ row'.attempt = row.attempt /\ operator' = operator
      /\ job' \in [Attempts -> Job] /\ job'[worker[w].attempt].st # "none"
      /\ \A b \in Attempts : b # worker[w].attempt => job'[b] = job[b]
  BY DEF RunMoves
<1>3. worker[w] \in Run /\ worker[w].attempt \in Attempts
  BY <1>1, <1>2, RunIsNotIdle
<1>4. /\ worker' \in [Workers -> {Idle} \cup Run] /\ worker'[w] = r
      /\ \A v \in Workers : v # w => worker'[v] = worker[v]
  BY <1>1, <1>2
<1>5. AttemptsReached'
  <2>1. \A a \in Attempts : job'[a].st # "none" => a <= row'.attempt
    BY <1>1, <1>2 DEF AttemptsReached
  <2>2. ASSUME NEW v \in Workers, worker'[v] # Idle
        PROVE  worker'[v].attempt <= row'.attempt /\ job'[worker'[v].attempt].st # "none"
    <3>1. CASE v = w
      BY <1>1, <1>2, <1>4, <2>2, <3>1 DEF AttemptsReached
    <3>2. CASE v # w
      <4>1. worker'[v] = worker[v] /\ worker[v].attempt \in Attempts
        BY <1>1, <1>4, <2>2, <3>2, RunIsNotIdle
      <4> QED
        BY <1>1, <1>2, <2>2, <4>1 DEF AttemptsReached
    <3> QED
      BY <3>1, <3>2
  <2> QED
    BY <1>1, <1>2, <2>1, <2>2 DEF AttemptsReached
<1>6. ~MaySend(r, row.attempt) => Senders' \subseteq Senders \ {w}
  BY <1>2, <1>4 DEF Senders
<1>7. w \in Senders => Senders' \subseteq Senders
  BY <1>2, <1>4 DEF Senders
<1>8. r # Idle => RunsOf(row.attempt)' = RunsOf(row.attempt)
  BY <1>2, <1>4 DEF RunsOf
<1>9. worker[w].attempt # row.attempt =>
        RunsOf(row.attempt)' = RunsOf(row.attempt) /\ job'[row.attempt] = job[row.attempt]
  BY <1>1, <1>2, <1>4 DEF RunsOf
<1> QED
  BY <1>3, <1>4, <1>5, <1>6, <1>7, <1>8, <1>9

LEMMA TakeJobKeeps ==
  ASSUME DeliveryInv, NEW w \in Workers, NEW a \in Attempts, TakeJob(w, a)
  PROVE  DeliveryInv'
<1>1. TypeOK /\ Bounded /\ AttemptsReached /\ row.attempt \in Attempts /\ a <= row.attempt
      /\ job \in [Attempts -> Job]
  BY DEF DeliveryInv, TypeOK, AttemptsReached, TakeJob
<1>2. CASE job' = [job EXCEPT ![a].st = "done"] /\ UNCHANGED worker
  <2>1. /\ job' \in [Attempts -> Job] /\ job'[a].st = "done" /\ job[a].st = "waiting"
        /\ \A b \in Attempts : b # a => job'[b] = job[b]
    BY <1>1, <1>2 DEF Job, TakeJob
  <2>2. TypeOK' /\ Bounded'
    BY <1>1, <1>2, <2>1 DEF TypeOK, Bounded, TakeJob
  <2>3. AttemptsReached'
    <3>1. \A b \in Attempts : job'[b].st # "none" <=> job[b].st # "none"
      BY <2>1
    <3>2. \A v \in Workers : worker[v] # Idle => worker[v].attempt \in Attempts
      BY <1>1, RunIsNotIdle DEF TypeOK
    <3> QED
      BY <1>1, <1>2, <3>1, <3>2 DEF AttemptsReached, TakeJob
  <2>4. MessagesCounted'
    BY <1>2, <2>1, JobWritten DEF TakeJob, Unmoved
  <2> QED
    BY <2>2, <2>3, <2>4 DEF DeliveryInv
<1>3. CASE /\ worker' = [worker EXCEPT ![w] = [pc |-> "check", attempt |-> a,
                           result |-> "SENT", msg |-> 0, owns |-> TRUE]]
           /\ job' = [job EXCEPT ![a].st = "active"]
  <2>1. PICK r : r = [pc |-> "check", attempt |-> a, result |-> "SENT", msg |-> 0, owns |-> TRUE]
    OBVIOUS
  <2>2. r \in Run /\ r.pc = "check" /\ r.attempt = a /\ r # Idle
    <3>1. r \in Run /\ r.pc = "check" /\ r.attempt = a
      BY <2>1, ConstantsAssumption DEF Run, Messages
    <3> QED
      BY <3>1, RunIsNotIdle
  <2>3. /\ job' \in [Attempts -> Job] /\ job'[a].st = "active" /\ job[a].st = "waiting"
        /\ \A b \in Attempts : b # a => job'[b] = job[b]
    BY <1>1, <1>3 DEF Job, TakeJob
  <2>4. /\ worker' \in [Workers -> {Idle} \cup Run] /\ worker'[w] = r /\ worker[w] = Idle
        /\ \A v \in Workers : v # w => worker'[v] = worker[v]
    BY <1>1, <1>3, <2>1, <2>2 DEF TypeOK, TakeJob
  <2>5. TypeOK' /\ Bounded'
    BY <1>1, <2>3, <2>4 DEF TypeOK, Bounded, TakeJob
  <2>6. AttemptsReached'
    <3>1. \A b \in Attempts : job'[b].st # "none" <=> job[b].st # "none"
      BY <2>3
    <3>2. \A v \in Workers : worker'[v] # Idle =>
            /\ worker'[v].attempt \in Attempts
            /\ v # w => worker[v] # Idle /\ worker'[v].attempt = worker[v].attempt
      BY <2>4, RunIsNotIdle
    <3> QED
      BY <1>1, <2>2, <2>3, <2>4, <3>1, <3>2 DEF AttemptsReached, TakeJob
  <2>7. row' = row /\ Unmoved
    BY DEF TakeJob, Unmoved
  <2>8. MessagesCounted'
    <3>1. CASE a = row.attempt
      <4>1. Opening /\ Senders' \subseteq Senders \cup {w}
        BY <2>3, <2>4, <2>7, <3>1 DEF Opening, Senders
      <4>2. w \in RunsOf(row.attempt)'
        BY <2>2, <2>4, <2>7, <3>1 DEF RunsOf
      <4>3. ~Opening'
        BY <2>3, <2>7, <3>1, <4>2 DEF Opening
      <4> QED
        BY <2>7, <4>1, <4>3, CountKept DEF Entered, DeliveryInv
    <3>2. CASE a # row.attempt
      <4>1. ~MaySend(r, row.attempt)
        BY <2>2, <3>2 DEF MaySend
      <4>2. Senders' \subseteq Senders
        BY <2>4, <2>7, <4>1 DEF Senders
      <4>3. RunsOf(row.attempt)' = RunsOf(row.attempt)
        BY <2>2, <2>4, <2>7, <3>2 DEF RunsOf
      <4>4. Opening' => Opening
        BY <1>1, <2>3, <2>7, <3>2, <4>3 DEF Opening
      <4> QED
        BY <2>7, <4>2, <4>4, CountKept DEF Kept, DeliveryInv
    <3> QED
      BY <3>1, <3>2
  <2> QED
    BY <2>5, <2>6, <2>8 DEF DeliveryInv
<1> QED
  BY <1>2, <1>3 DEF TakeJob

\* A run that goes on for the row's attempt, or ends.
LEMMA MoveKeeps ==
  ASSUME DeliveryInv, NEW w \in Workers, NEW r, RunMoves(w, r), MessagesCounted',
         row' \in RowType, sent' \in Seq(Attempts), Bounded', doubts' \in Nat,
         UNCHANGED <<dispatcher, callback, notice, quiet, nights>>
  PROVE  DeliveryInv'
<1>1. AttemptsReached' /\ worker' \in [Workers -> {Idle} \cup Run]
  BY RunMoved
<1>2. job' \in [Attempts -> Job] /\ operator' = operator
  BY DEF RunMoves
<1> QED
  BY <1>1, <1>2 DEF DeliveryInv, TypeOK, RowType

\* A worker that is not idle has a run, whose job has been added.
LEMMA RunOf ==
  ASSUME DeliveryInv, NEW w \in Workers, worker[w].pc # "idle"
  PROVE  /\ worker[w] \in Run /\ worker[w] # Idle /\ worker[w].attempt \in Attempts
         /\ w \in DOMAIN worker /\ job[worker[w].attempt].st # "none"
         /\ row \in RowType /\ sent \in Seq(Attempts) /\ Bounded /\ doubts \in Nat
         /\ job \in [Attempts -> Job]
<1>1. /\ worker \in [Workers -> {Idle} \cup Run] /\ row \in RowType /\ sent \in Seq(Attempts)
      /\ Bounded /\ doubts \in Nat /\ job \in [Attempts -> Job] /\ AttemptsReached
  BY DEF DeliveryInv, TypeOK, RowType
<1>2. worker[w] \in Run /\ worker[w] # Idle
  BY <1>1 DEF Idle
<1> QED
  BY <1>1, <1>2, RunIsNotIdle DEF AttemptsReached

LEMMA EvaluatePolicyKeeps ==
  ASSUME DeliveryInv, NEW w \in Workers, EvaluatePolicy(w)
  PROVE  DeliveryInv'
<1>1. PICK s : s = worker[w]
  OBVIOUS
<1>2. s.pc = "policy" /\ s \in Run
  BY <1>1, RunOf DEF EvaluatePolicy
<1>3. PICK r : /\ worker' = [worker EXCEPT ![w] = r] /\ r \in Run /\ r.attempt = s.attempt
               /\ \/ r.pc = "send"
                  \/ r.pc = "mark" /\ r.result # "SENT"
  <2>1. 0 \in Messages
    BY ConstantsAssumption DEF Messages
  <2>2. PICK skips, waits, sends :
          /\ skips = [s EXCEPT !.pc = "mark", !.result = "SKIPPED", !.msg = 0]
          /\ waits = [s EXCEPT !.pc = "mark", !.result = "RETRY_PENDING", !.msg = 0]
          /\ sends = [s EXCEPT !.pc = "send"]
    OBVIOUS
  <2>3. /\ skips \in Run /\ skips.attempt = s.attempt /\ skips.pc = "mark" /\ skips.result = "SKIPPED"
        /\ waits \in Run /\ waits.attempt = s.attempt /\ waits.pc = "mark"
        /\ waits.result = "RETRY_PENDING"
        /\ sends \in Run /\ sends.attempt = s.attempt /\ sends.pc = "send"
    BY <1>2, <2>1, <2>2 DEF Run
  <2>4. \E r \in {skips, waits, sends} : worker' = [worker EXCEPT ![w] = r]
    BY <1>1, <2>2, RunOf DEF EvaluatePolicy, Decide
  <2> QED
    BY <2>3, <2>4
<1>4. UNCHANGED <<row, job, dispatcher, operator, callback, notice, quiet, nights, sent, doubts>>
  BY DEF EvaluatePolicy
<1>5. RunMoves(w, r)
  BY <1>1, <1>2, <1>3, <1>4, RunOf DEF RunMoves
<1>6. w \in Senders
  BY <1>1, <1>2 DEF Senders, MaySend
<1>7. Senders' \subseteq Senders /\ RunsOf(row.attempt)' = RunsOf(row.attempt)
  BY <1>3, <1>5, <1>6, RunMoved, RunIsNotIdle
<1>8. MessagesCounted'
  BY <1>4, <1>7, CountKept DEF Kept, Opening, Unmoved, DeliveryInv
<1> QED
  BY <1>1, <1>2, <1>4, <1>5, <1>8, RunOf, MoveKeeps DEF Bounded

LEMMA SendKeeps ==
  ASSUME DeliveryInv, NEW w \in Workers, Send(w)
  PROVE  DeliveryInv'
<1>1. PICK s : s = worker[w]
  OBVIOUS
<1>2. s.pc = "send" /\ s \in Run /\ s # Idle /\ s.attempt \in Attempts /\ w \in DOMAIN worker
  BY <1>1, RunOf DEF Send
<1>3. /\ row \in RowType /\ sent \in Seq(Attempts) /\ Bounded /\ doubts \in Nat
      /\ job \in [Attempts -> Job] /\ job[s.attempt].st # "none" /\ MaxMessages \in Nat
  BY <1>1, <1>2, RunOf, ConstantsAssumption
<1>4. UNCHANGED <<row, job, dispatcher, operator, callback, notice, quiet, nights>>
  BY DEF Send
<1>5. w \in Senders
  BY <1>1, <1>2 DEF Senders, MaySend
<1>6. ASSUME NEW result \in {"SENT", "FAILED", "SKIPPED"}, NEW m \in Messages, Decide(w, result, m)
      PROVE  \E r : /\ RunMoves(w, r) /\ r \in Run /\ r.pc = "mark" /\ r.result = result
                    /\ Senders' \subseteq Senders /\ RunsOf(row.attempt)' = RunsOf(row.attempt)
                    /\ result = "SENT" => Senders' \subseteq Senders \ {w}
  <2>1. PICK r : r = [s EXCEPT !.pc = "mark", !.result = result, !.msg = m]
    OBVIOUS
  <2>2. r \in Run /\ r.pc = "mark" /\ r.result = result /\ r.attempt = s.attempt
    BY <1>2, <2>1 DEF Run
  <2>3. worker' = [worker EXCEPT ![w] = r]
    BY <1>1, <1>2, <1>6, <2>1 DEF Decide
  <2>4. RunMoves(w, r)
    BY <1>1, <1>2, <1>3, <1>4, <2>2, <2>3 DEF RunMoves
  <2>5. Senders' \subseteq Senders /\ RunsOf(row.attempt)' = RunsOf(row.attempt)
    BY <1>5, <2>2, <2>4, RunMoved, RunIsNotIdle
  <2>6. result = "SENT" => Senders' \subseteq Senders \ {w}
    BY <2>2, <2>4, RunMoved DEF MaySend
  <2> QED
    BY <2>2, <2>4, <2>5, <2>6
<1>7. CASE Unmoved /\ \E result \in {"FAILED", "SKIPPED"} : Decide(w, result, 0)
  <2>1. 0 \in Messages
    BY <1>3 DEF Messages
  <2>2. PICK r : /\ RunMoves(w, r) /\ Senders' \subseteq Senders
                 /\ RunsOf(row.attempt)' = RunsOf(row.attempt)
    BY <1>6, <1>7, <2>1
  <2>3. MessagesCounted'
    BY <1>4, <1>7, <2>2, CountKept DEF Kept, Opening, DeliveryInv
  <2> QED
    BY <1>3, <1>4, <1>7, <2>2, <2>3, MoveKeeps DEF Unmoved, Bounded
<1>8. CASE /\ Len(sent) < MaxMessages /\ sent' = Append(sent, s.attempt)
           /\ \/ Decide(w, "SENT", Len(sent) + 1) /\ doubts' = doubts
              \/ Decide(w, "FAILED", 0) /\ doubts' = doubts + 1
  <2>1. 0 \in Messages /\ Len(sent) + 1 \in Messages
    BY <1>3, <1>8 DEF Messages
  <2>2. sent' \in Seq(Attempts) /\ Len(sent') = Len(sent) + 1 /\ Bounded' /\ doubts' \in Nat
    BY <1>2, <1>3, <1>8 DEF Bounded
  <2>3. PICK r : /\ RunMoves(w, r) /\ RunsOf(row.attempt)' = RunsOf(row.attempt)
                 /\ \/ doubts' = doubts /\ Senders' \subseteq Senders \ {w}
                    \/ doubts' = doubts + 1 /\ Senders' \subseteq Senders
    BY <1>6, <1>8, <2>1
  <2>4. Opening' => Opening
    BY <1>4, <2>3 DEF Opening
  <2>5. MessagesCounted'
    BY <1>5, <2>2, <2>3, <2>4, CountKept DEF Used, DeliveryInv
  <2> QED
    BY <1>3, <1>4, <2>2, <2>3, <2>5, MoveKeeps
<1> QED
  BY <1>1, <1>7, <1>8 DEF Send, Unmoved

LEMMA IdleSendsNothing == ASSUME NEW a PROVE ~MaySend(Idle, a)
  BY DEF MaySend, Idle

LEMMA JobAfterRun ==
  ASSUME DeliveryInv, NEW w \in Workers, worker[w].pc # "idle"
  PROVE  /\ JobAfter(w) \in [Attempts -> Job]
         /\ JobAfter(w)[worker[w].attempt].st # "none"
         /\ worker[w].result = "SENT" => JobAfter(w)[worker[w].attempt].st = "done"
         /\ \A b \in Attempts : b # worker[w].attempt => JobAfter(w)[b] = job[b]
<1>1. PICK s, a : s = worker[w] /\ a = s.attempt
  OBVIOUS
<1>2. a \in Attempts /\ job \in [Attempts -> Job] /\ Tries \in Nat \ {0}
  BY <1>1, RunOf, ConstantsAssumption
<1>3. PICK again, delayed, dead, done :
        /\ again = [job EXCEPT ![a].st = "waiting", ![a].tries = @ - 1]
        /\ delayed = [job EXCEPT ![a].st = "delayed"]
        /\ dead = [job EXCEPT ![a].st = "dead"] /\ done = [job EXCEPT ![a].st = "done"]
  OBVIOUS
<1>4. /\ s.result = "FAILED" /\ job[a].tries > 1 => JobAfter(w) = again
      /\ s.result = "RETRY_PENDING" => JobAfter(w) = delayed
      /\ s.result = "FAILED" /\ job[a].tries <= 1 => JobAfter(w) = dead
      /\ s.result \notin {"FAILED", "RETRY_PENDING"} => JobAfter(w) = done
  <2>1. JobAfter(w) = CASE s.result = "RETRY_PENDING" -> delayed
                        [] s.result = "FAILED" /\ job[a].tries > 1 -> again
                        [] s.result = "FAILED" /\ job[a].tries <= 1 -> dead
                        [] OTHER -> done
    BY <1>1, <1>3 DEF JobAfter, Retried
  <2> QED
    BY <1>2, <2>1 DEF Job
<1>5. job[a].tries > 1 => /\ again \in [Attempts -> Job] /\ again[a].st = "waiting"
                          /\ \A b \in Attempts : b # a => again[b] = job[b]
  BY <1>2, <1>3 DEF Job
<1>6. /\ \A j \in {delayed, dead, done} : j \in [Attempts -> Job] /\ j[a].st # "none"
                                          /\ \A b \in Attempts : b # a => j[b] = job[b]
      /\ done[a].st = "done"
  BY <1>2, <1>3 DEF Job
<1>7. job[a].tries > 1 \/ job[a].tries <= 1
  BY <1>2 DEF Job
<1> QED
  BY <1>1, <1>4, <1>5, <1>6, <1>7

\* A run that ends leaves the job as the queue has decided, if it still owned it.
LEMMA RunEnds ==
  ASSUME DeliveryInv, NEW w \in Workers, worker[w].pc # "idle",
         worker' = [worker EXCEPT ![w] = Idle], row' \in RowType, row'.attempt = row.attempt,
         \/ job' = job
         \/ job' = JobAfter(w)
         \/ job' = [job EXCEPT ![worker[w].attempt].st = "done"],
         UNCHANGED <<dispatcher, operator, callback, notice, quiet, nights, sent, doubts>>,
         MaySend(worker[w], row.attempt) \/ (Opening' => Opening)
  PROVE  DeliveryInv'
<1>1. /\ worker[w] \in Run /\ worker[w] # Idle /\ worker[w].attempt \in Attempts
      /\ job[worker[w].attempt].st # "none" /\ job \in [Attempts -> Job]
      /\ sent \in Seq(Attempts) /\ Bounded /\ doubts \in Nat
  BY RunOf
<1>2. /\ job' \in [Attempts -> Job] /\ job'[worker[w].attempt].st # "none"
      /\ \A b \in Attempts : b # worker[w].attempt => job'[b] = job[b]
  <2>1. CASE job' = job
    BY <1>1, <2>1
  <2>2. CASE job' = JobAfter(w)
    BY <2>2, JobAfterRun
  <2>3. CASE job' = [job EXCEPT ![worker[w].attempt].st = "done"]
    <3>1. PICK a : a = worker[w].attempt
      OBVIOUS
    <3> QED
      BY <1>1, <2>3, <3>1 DEF Job
  <2> QED
    BY <2>1, <2>2, <2>3
<1>3. RunMoves(w, Idle)
  BY <1>1, <1>2 DEF RunMoves
<1>4. Senders' \subseteq Senders \ {w}
  BY <1>3, RunMoved, IdleSendsNothing
<1>5. CASE MaySend(worker[w], row.attempt)
  <2>1. w \in Senders
    BY <1>5 DEF Senders
  <2>2. MessagesCounted'
    BY <1>4, <2>1, CountKept DEF Ended, Unmoved, DeliveryInv
  <2> QED
    BY <1>1, <1>3, <2>2, MoveKeeps DEF Bounded
<1>6. CASE Opening' => Opening
  <2>1. MessagesCounted'
    BY <1>4, <1>6, CountKept DEF Kept, Unmoved, DeliveryInv
  <2> QED
    BY <1>1, <1>3, <2>1, MoveKeeps DEF Bounded
<1> QED
  BY <1>5, <1>6

\* What a run of an earlier attempt leaves alone.
LEMMA EarlierEnds ==
  ASSUME DeliveryInv, NEW w \in Workers, worker[w].pc # "idle",
         worker' = [worker EXCEPT ![w] = Idle], row' = row, worker[w].attempt # row.attempt,
         \A b \in Attempts : b # worker[w].attempt => job'[b] = job[b]
  PROVE  Opening' => Opening
<1>1. worker \in [Workers -> {Idle} \cup Run] /\ row.attempt \in Attempts
  BY DEF DeliveryInv, TypeOK
<1>2. job'[row.attempt] = job[row.attempt] /\ RunsOf(row.attempt)' = RunsOf(row.attempt)
  BY <1>1 DEF RunsOf
<1> QED
  BY <1>2 DEF Opening

LEMMA CheckCurrentKeeps ==
  ASSUME DeliveryInv, NEW w \in Workers, CheckCurrent(w)
  PROVE  DeliveryInv'
<1>1. PICK s : s = worker[w]
  OBVIOUS
<1>2. s.pc = "check" /\ s \in Run /\ s # Idle /\ s.attempt \in Attempts /\ w \in DOMAIN worker
  BY <1>1, RunOf DEF CheckCurrent
<1>3. /\ row \in RowType /\ sent \in Seq(Attempts) /\ Bounded /\ doubts \in Nat
      /\ job \in [Attempts -> Job] /\ job[s.attempt].st # "none"
  BY <1>1, <1>2, RunOf
<1>4. UNCHANGED <<row, dispatcher, operator, callback, notice, quiet, nights, sent, doubts>>
  BY DEF CheckCurrent
<1>5. CASE OpenFor(s.attempt)
  <2>1. PICK r : r = [s EXCEPT !.pc = "policy"]
    OBVIOUS
  <2>2. r \in Run /\ r.pc = "policy" /\ r.attempt = s.attempt
    BY <1>2, <2>1 DEF Run
  <2>3. worker' = [worker EXCEPT ![w] = r] /\ job' = job
    BY <1>1, <1>2, <1>5, <2>1 DEF CheckCurrent
  <2>4. RunMoves(w, r)
    BY <1>1, <1>2, <1>3, <1>4, <2>2, <2>3 DEF RunMoves
  <2>5. w \in Senders
    BY <1>1, <1>2, <1>5 DEF Senders, MaySend, OpenFor
  <2>6. Senders' \subseteq Senders /\ RunsOf(row.attempt)' = RunsOf(row.attempt)
    BY <2>2, <2>4, <2>5, RunMoved, RunIsNotIdle
  <2>7. MessagesCounted'
    BY <1>4, <2>3, <2>6, CountKept DEF Kept, Opening, Unmoved, DeliveryInv
  <2> QED
    BY <1>3, <1>4, <2>4, <2>7, MoveKeeps DEF Bounded
<1>6. CASE ~OpenFor(s.attempt)
  <2>1. /\ worker' = [worker EXCEPT ![w] = Idle]
        /\ job' = job \/ job' = [job EXCEPT ![s.attempt].st = "done"]
    BY <1>1, <1>6 DEF CheckCurrent, Ends
  <2>2. CASE s.attempt = row.attempt
    <3>1. MaySend(s, row.attempt)
      BY <1>2, <2>2 DEF MaySend
    <3> QED
      BY <1>1, <1>2, <1>3, <1>4, <2>1, <3>1, RunEnds
  <2>3. CASE s.attempt # row.attempt
    <3>1. \A b \in Attempts : b # s.attempt => job'[b] = job[b]
      BY <1>2, <1>3, <2>1 DEF Job
    <3>2. Opening' => Opening
      BY <1>1, <1>2, <1>4, <2>1, <2>3, <3>1, EarlierEnds
    <3> QED
      BY <1>1, <1>2, <1>3, <1>4, <2>1, <3>2, RunEnds
  <2> QED
    BY <2>2, <2>3
<1> QED
  BY <1>5, <1>6

LEMMA MarkDeliveryKeeps ==
  ASSUME DeliveryInv, NEW w \in Workers, MarkDelivery(w)
  PROVE  DeliveryInv'
<1>1. PICK s : s = worker[w]
  OBVIOUS
<1>2. s.pc = "mark" /\ s \in Run /\ s # Idle /\ s.attempt \in Attempts
      /\ row \in RowType /\ job \in [Attempts -> Job]
  BY <1>1, RunOf DEF MarkDelivery
<1>3. /\ worker' = [worker EXCEPT ![w] = Idle]
      /\ IF s.owns THEN job' = JobAfter(w) ELSE job' = job
      /\ UNCHANGED <<dispatcher, operator, callback, notice, quiet, nights, sent, doubts>>
  BY <1>1 DEF MarkDelivery
<1>4. /\ row' \in RowType /\ row'.attempt = row.attempt
      /\ ~OpenFor(s.attempt) => row' = row
      /\ OpenFor(s.attempt) => row'.status = s.result
  <2>1. CASE OpenFor(s.attempt)
    <3>1. PICK m : m = IF s.msg = 0 THEN row.msg ELSE s.msg
      OBVIOUS
    <3>2. m \in Messages /\ s.result \in Statuses
      BY <1>2, <3>1 DEF Run, RowType, Statuses
    <3>3. row' = [row EXCEPT !.status = s.result, !.msg = m]
      BY <1>1, <2>1, <3>1 DEF MarkDelivery
    <3> QED
      BY <1>2, <2>1, <3>2, <3>3 DEF RowType
  <2>2. CASE ~OpenFor(s.attempt)
    BY <1>1, <1>2, <2>2 DEF MarkDelivery
  <2> QED
    BY <2>1, <2>2
<1>5. CASE s.result # "SENT"
  <2>1. MaySend(s, row.attempt)
    BY <1>2, <1>5 DEF MaySend
  <2> QED
    BY <1>1, <1>2, <1>3, <1>4, <2>1, RunEnds
<1>6. CASE s.result = "SENT"
  <2>1. /\ job' = job \/ job'[s.attempt].st = "done"
        /\ \A b \in Attempts : b # s.attempt => job'[b] = job[b]
    BY <1>1, <1>2, <1>3, <1>6, JobAfterRun
  <2>2. CASE s.attempt # row.attempt
    <3>1. row' = row
      BY <1>4, <2>2 DEF OpenFor
    <3>2. Opening' => Opening
      BY <1>1, <1>2, <1>3, <2>1, <2>2, <3>1, EarlierEnds
    <3> QED
      BY <1>1, <1>2, <1>3, <1>4, <3>2, RunEnds
  <2>3. CASE s.attempt = row.attempt
    <3>1. row'.status \notin Pending
      BY <1>4, <1>6, <2>3 DEF OpenFor, Pending
    <3>2. Opening' => Opening
      BY <1>4, <2>1, <2>3, <3>1 DEF Opening
    <3> QED
      BY <1>1, <1>2, <1>3, <1>4, <3>2, RunEnds
  <2> QED
    BY <2>2, <2>3
<1> QED
  BY <1>5, <1>6

LEMMA StallKeeps ==
  ASSUME DeliveryInv, NEW w \in Workers, Stall(w)
  PROVE  DeliveryInv'
<1>1. PICK s, a : s = worker[w] /\ a = s.attempt
  OBVIOUS
<1>2. s.pc # "idle" /\ s \in Run /\ s # Idle /\ a \in Attempts /\ w \in DOMAIN worker
      /\ row \in RowType /\ job \in [Attempts -> Job] /\ sent \in Seq(Attempts)
      /\ Bounded /\ doubts \in Nat
  <2>1. s.pc # "idle"
    BY <1>1, RunIsNotIdle DEF Stall, DeliveryInv, TypeOK
  <2> QED
    BY <1>1, <2>1, RunOf
<1>3. UNCHANGED <<row, dispatcher, operator, callback, notice, quiet, nights, sent>>
      /\ doubts' = doubts + 1
  BY DEF Stall
<1>4. /\ job' \in [Attempts -> Job] /\ job'[a].st # "none"
      /\ \A b \in Attempts : b # a => job'[b] = job[b]
  <2>1. job' = [job EXCEPT ![a].st = IF job[a].stalled THEN "dead" ELSE "waiting", ![a].stalled = TRUE]
    BY <1>1 DEF Stall
  <2> QED
    BY <1>2, <2>1, ZenonT(60) DEF Job
<1>5. PICK r : RunMoves(w, r) /\ (MaySend(r, row.attempt) => MaySend(s, row.attempt))
  <2>1. CASE worker' = [worker EXCEPT ![w] = Idle]
    <3>1. RunMoves(w, Idle)
      BY <1>1, <1>2, <1>3, <1>4, <2>1 DEF RunMoves
    <3> QED
      BY <3>1, IdleSendsNothing
  <2>2. CASE worker' = [worker EXCEPT ![w].owns = FALSE]
    <3>1. PICK r : r = [s EXCEPT !.owns = FALSE]
      OBVIOUS
    <3>2. r \in Run /\ r.pc = s.pc /\ r.result = s.result /\ r.attempt = a
      BY <1>1, <1>2, <3>1 DEF Run
    <3>3. worker' = [worker EXCEPT ![w] = r]
      BY <1>1, <1>2, <2>2, <3>1
    <3>4. RunMoves(w, r)
      BY <1>1, <1>2, <1>3, <1>4, <3>2, <3>3 DEF RunMoves
    <3> QED
      BY <1>1, <3>2, <3>4 DEF MaySend
  <2> QED
    BY <2>1, <2>2 DEF Stall
<1>6. Senders' \subseteq Senders
  <2>1. CASE MaySend(s, row.attempt)
    <3>1. w \in Senders
      BY <1>1, <2>1 DEF Senders
    <3> QED
      BY <1>5, <3>1, RunMoved
  <2>2. CASE ~MaySend(s, row.attempt)
    BY <1>5, <2>2, RunMoved
  <2> QED
    BY <2>1, <2>2
<1>7. MessagesCounted'
  BY <1>3, <1>6, CountKept DEF Doubted, DeliveryInv
<1> QED
  BY <1>2, <1>3, <1>5, <1>7, MoveKeeps DEF Bounded

-----------------------------------------------------------------------------
(***************************************************************************)
(* Operators, provider reports, the notice and the clock                   *)
(***************************************************************************)
LEMMA OperatorWritten ==
  ASSUME DeliveryInv, NEW o \in Operators, NEW next \in {Idle} \cup Retry,
         operator' = [operator EXCEPT ![o] = next],
         next # Idle => next.attempt <= row.attempt,
         row' \in RowType, row'.attempt = row.attempt, row'.status \in Pending => row.status \in Pending,
         UNCHANGED <<job, dispatcher, worker, callback, notice, quiet, nights, sent, doubts>>
  PROVE  DeliveryInv'
<1>1. /\ operator \in [Operators -> {Idle} \cup Retry] /\ AttemptsReached /\ TypeOK
      /\ Bounded
  BY DEF DeliveryInv, TypeOK
<1>2. /\ operator' \in [Operators -> {Idle} \cup Retry] /\ operator'[o] = next
      /\ \A p \in Operators : p # o => operator'[p] = operator[p]
  BY <1>1
<1>3. TypeOK' /\ Bounded'
  BY <1>1, <1>2 DEF TypeOK, RowType, Bounded
<1>4. AttemptsReached'
  BY <1>1, <1>2 DEF AttemptsReached
<1>5. MessagesCounted'
  BY RowWritten DEF Unmoved
<1> QED
  BY <1>3, <1>4, <1>5 DEF DeliveryInv

LEMMA RetryReadsKeeps ==
  ASSUME DeliveryInv, NEW o \in Operators, RetryReads(o) PROVE DeliveryInv'
<1>1. PICK next : next = [pc |-> "claim", attempt |-> row.attempt]
  OBVIOUS
<1>2. row \in RowType /\ row.attempt \in Attempts /\ row.attempt <= row.attempt
  BY DEF DeliveryInv, TypeOK, RowType, Attempts
<1>3. next \in Retry /\ next.attempt = row.attempt
  BY <1>1, <1>2 DEF Retry
<1>4. operator' = [operator EXCEPT ![o] = next]
      /\ UNCHANGED <<row, job, dispatcher, worker, callback, notice, quiet, nights, sent, doubts>>
  BY <1>1 DEF RetryReads
<1> QED
  BY <1>2, <1>3, <1>4, OperatorWritten

LEMMA RetryHandoffKeeps ==
  ASSUME DeliveryInv, NEW o \in Operators, RetryHandoff(o) PROVE DeliveryInv'
<1>1. /\ TypeOK /\ Bounded /\ AttemptsReached /\ row \in RowType
      /\ operator \in [Operators -> {Idle} \cup Retry] /\ operator[o].pc = "handoff"
  BY DEF DeliveryInv, TypeOK, RowType, RetryHandoff
<1>2. PICK a : a = operator[o].attempt
  OBVIOUS
<1>3. operator[o] \in Retry /\ operator[o] # Idle
  BY <1>1 DEF Idle
<1>4. a \in Attempts /\ a <= row.attempt
  BY <1>1, <1>2, <1>3 DEF Retry, AttemptsReached
<1>5. /\ operator' = [operator EXCEPT ![o] = Idle]
      /\ UNCHANGED <<dispatcher, worker, callback, notice, quiet, nights, sent, doubts>>
  BY DEF RetryHandoff
<1>6. CASE UNCHANGED <<row, job>>
  BY <1>1, <1>5, <1>6, OperatorWritten
<1>7. CASE job' = Enqueued(a) /\ UNCHANGED row
  <2>1. \A p \in Operators : operator'[p] # Idle =>
          operator[p] # Idle /\ operator'[p].attempt = operator[p].attempt
    BY <1>1, <1>5
  <2>2. AttemptsReached' /\ MessagesCounted' /\ job' \in [Attempts -> Job]
    BY <1>4, <1>5, <1>7, <2>1, JobAdded
  <2>3. TypeOK' /\ Bounded'
    BY <1>1, <1>5, <1>7, <2>2 DEF TypeOK, Bounded
  <2> QED
    BY <2>2, <2>3 DEF DeliveryInv
<1>8. CASE row.status = "RETRY_PENDING" /\ row' = [row EXCEPT !.status = "FAILED"] /\ UNCHANGED job
  <2>1. row' \in RowType /\ row'.attempt = row.attempt /\ row.status \in Pending
    BY <1>1, <1>8 DEF RowType, Statuses, Pending
  <2> QED
    BY <1>5, <1>8, <2>1, OperatorWritten
<1> QED
  BY <1>2, <1>6, <1>7, <1>8 DEF RetryHandoff

\* A claim opens the next attempt.  No run of the attempt before it counts any
\* more unless it is past its check, and then the claim is a doubt.
LEMMA RetryClaimsKeeps ==
  ASSUME DeliveryInv, NEW o \in Operators, RetryClaims(o) PROVE DeliveryInv'
<1>1. /\ TypeOK /\ Bounded /\ AttemptsReached /\ row \in RowType /\ row.attempt \in Attempts
      /\ operator \in [Operators -> {Idle} \cup Retry] /\ row.attempt < MaxAttempt
      /\ worker \in [Workers -> {Idle} \cup Run] /\ doubts \in Nat /\ MaxAttempt \in Nat
  BY ConstantsAssumption DEF DeliveryInv, TypeOK, RowType, RetryClaims
<1>2. UNCHANGED <<job, dispatcher, worker, callback, notice, quiet, nights, sent>>
  BY DEF RetryClaims
<1>3. CASE ~Claimable(operator[o].attempt)
  BY <1>1, <1>2, <1>3, OperatorWritten DEF RetryClaims
<1>4. CASE Claimable(operator[o].attempt)
  <2>1. PICK a, b : a = row.attempt /\ b = row.attempt + 1
    OBVIOUS
  <2>2. a \in Attempts /\ b \in Attempts /\ b = a + 1
    BY <1>1, <2>1 DEF Attempts
  <2>3. row' = [row EXCEPT !.status = "RETRY_PENDING", !.attempt = b]
    BY <1>4, <2>1 DEF RetryClaims
  <2>4. /\ row' \in RowType /\ row'.attempt = b
        /\ row.status \in Pending
    BY <1>1, <1>4, <2>2, <2>3 DEF RowType, Statuses, Pending, Claimable
  <2>5. PICK next : next = [pc |-> "handoff", attempt |-> b]
    OBVIOUS
  <2>6. next \in Retry /\ next.attempt = b
    BY <2>2, <2>5 DEF Retry
  <2>7. /\ operator' \in [Operators -> {Idle} \cup Retry] /\ operator'[o] = next
        /\ \A p \in Operators : p # o => operator'[p] = operator[p]
    BY <1>1, <1>4, <2>1, <2>5, <2>6 DEF RetryClaims
  <2>8. doubts' = IF Underway(a) THEN doubts + 1 ELSE doubts
    BY <1>4, <2>1 DEF RetryClaims
  <2>9. TypeOK' /\ Bounded'
    BY <1>1, <1>2, <2>4, <2>7, <2>8 DEF TypeOK, RowType, Bounded
  <2>10. \A w \in Workers : worker[w] # Idle => worker[w].attempt \in Attempts /\ worker[w].attempt <= a
    BY <1>1, <2>1, RunIsNotIdle DEF AttemptsReached
  <2>11. AttemptsReached'
    <3>1. \A c \in Attempts : job'[c].st # "none" => c <= row'.attempt
      BY <1>1, <1>2, <2>1, <2>2, <2>4 DEF AttemptsReached, Attempts
    <3>2. \A w \in Workers : worker'[w] # Idle =>
            worker'[w].attempt <= row'.attempt /\ job'[worker'[w].attempt].st # "none"
      BY <1>1, <1>2, <2>2, <2>4, <2>10 DEF AttemptsReached, Attempts
    <3>3. \A p \in Operators : operator'[p] # Idle => operator'[p].attempt <= row'.attempt
      BY <1>1, <2>1, <2>2, <2>4, <2>6, <2>7 DEF AttemptsReached, Attempts, Retry
    <3> QED
      BY <3>1, <3>2, <3>3 DEF AttemptsReached
  <2>12. Senders' = {w \in Senders : worker[w].pc # "check"}
    <3>1. ASSUME NEW w \in Workers
          PROVE  MaySend(worker[w], b) <=> MaySend(worker[w], a) /\ worker[w].pc # "check"
      <4>1. worker[w].pc = "check" => worker[w] # Idle
        BY DEF Idle
      <4>2. worker[w].pc = "check" => worker[w].attempt # b
        BY <2>2, <2>10, <4>1 DEF Attempts
      <4> QED
        BY <4>2 DEF MaySend
    <3> QED
      BY <1>2, <2>1, <2>4, <3>1 DEF Senders
  <2>13. CASE Underway(a)
    <3>1. Doubted
      BY <1>2, <2>8, <2>12, <2>13 DEF Doubted
    <3> QED
      BY <2>9, <2>11, <3>1, CountKept DEF DeliveryInv
  <2>14. CASE ~Underway(a) /\ RunsOf(a) = {}
    <3>1. Opening
      BY <2>1, <2>4, <2>14 DEF Opening
    <3>2. Kept
      BY <1>2, <2>8, <2>12, <2>14, <3>1 DEF Kept, Unmoved
    <3> QED
      BY <2>9, <2>11, <3>2, CountKept DEF DeliveryInv
  <2>15. CASE ~Underway(a) /\ RunsOf(a) # {}
    <3>1. PICK w \in Workers : worker[w] # Idle /\ worker[w].attempt = a
      BY <2>15 DEF RunsOf
    <3>2. worker[w].pc = "check"
      BY <1>1, <2>15, <3>1 DEF Underway, Run
    <3>3. w \in Senders /\ Senders' \subseteq Senders \ {w}
      BY <2>1, <2>12, <3>1, <3>2 DEF Senders, MaySend
    <3>4. Ended
      BY <1>2, <2>8, <2>15, <3>3 DEF Ended, Unmoved
    <3> QED
      BY <2>9, <2>11, <3>4, CountKept DEF DeliveryInv
  <2> QED
    BY <2>13, <2>14, <2>15
<1> QED
  BY <1>3, <1>4

LEMMA CallbackReadsKeeps ==
  ASSUME DeliveryInv, NEW k \in Callbacks, NEW m \in DOMAIN sent,
         NEW s \in {"SENT", "DELIVERED", "FAILED"}, NEW named \in BOOLEAN,
         CallbackReads(k, m, s, named)
  PROVE  DeliveryInv'
<1>1. /\ TypeOK /\ Bounded /\ AttemptsReached
      /\ UNCHANGED <<row, job, dispatcher, worker, operator, notice, quiet, nights, sent, doubts>>
  BY DEF DeliveryInv, CallbackReads
<1>2. PICK id : id = IF named THEN m ELSE row.msg
  OBVIOUS
<1>3. id \in Messages
  <2>1. m \in 1..Len(sent) /\ Len(sent) \in Nat /\ Len(sent) <= MaxMessages /\ row.msg \in Messages
    BY <1>1 DEF TypeOK, Bounded
  <2> QED
    BY <1>2, <2>1, ConstantsAssumption DEF Messages
<1>4. PICK next : next = [pc |-> "write", incoming |-> s, msg |-> id]
  OBVIOUS
<1>5. next \in Report
  BY <1>3, <1>4 DEF Report
<1>6. callback' = [callback EXCEPT ![k] = next]
  BY <1>2, <1>4 DEF CallbackReads
<1>7. TypeOK' /\ Bounded'
  BY <1>1, <1>5, <1>6 DEF TypeOK, Bounded
<1> QED
  BY <1>1, <1>7, ReachedKept, RowWritten DEF DeliveryInv, Unmoved

LEMMA CallbackWritesKeeps ==
  ASSUME DeliveryInv, NEW k \in Callbacks, CallbackWrites(k)
  PROVE  DeliveryInv'
<1>1. /\ TypeOK /\ Bounded /\ AttemptsReached /\ row \in RowType /\ doubts \in Nat
      /\ callback \in [Callbacks -> {Idle} \cup Report]
      /\ UNCHANGED <<job, dispatcher, worker, operator, notice, quiet, nights, sent>>
  BY DEF DeliveryInv, CallbackWrites, TypeOK, RowType
<1>2. PICK c : c = callback[k]
  OBVIOUS
<1>3. c \in Report
  BY <1>1, <1>2 DEF CallbackWrites, Idle
<1>4. PICK m : m = IF c.msg = 0 THEN row.msg ELSE c.msg
  OBVIOUS
<1>5. row' = [row EXCEPT !.status = c.incoming, !.msg = m]
  BY <1>2, <1>4 DEF CallbackWrites
<1>6. m \in Messages /\ c.incoming \in {"SENT", "DELIVERED", "FAILED"}
  BY <1>1, <1>3, <1>4 DEF RowType, Report
<1>7. row' \in RowType /\ row'.attempt = row.attempt /\ row'.status = c.incoming
  BY <1>1, <1>5, <1>6 DEF RowType, Statuses
<1>8. doubts' = IF c.incoming = "FAILED" THEN doubts + 1 ELSE doubts
  BY <1>2 DEF CallbackWrites
<1>9. callback' \in [Callbacks -> {Idle} \cup Report]
  BY <1>1 DEF CallbackWrites
<1>10. TypeOK' /\ Bounded'
  BY <1>1, <1>7, <1>8, <1>9 DEF TypeOK, RowType, Bounded
<1>11. AttemptsReached'
  BY <1>1, <1>7, ReachedKept
<1>12. MessagesCounted'
  <2>1. \/ Unmoved /\ (row'.status \in Pending => row.status \in Pending)
        \/ sent' = sent /\ doubts' = doubts + 1
    BY <1>1, <1>6, <1>7, <1>8 DEF Unmoved, Pending
  <2> QED
    BY <1>1, <1>7, <2>1, RowWritten
<1> QED
  BY <1>10, <1>11, <1>12 DEF DeliveryInv

LEMMA NoticeAndClockKeep ==
  ASSUME DeliveryInv, CancelNotice \/ ExpireNotice \/ QuietBegins \/ QuietEnds
  PROVE  DeliveryInv'
<1>1. /\ TypeOK /\ Bounded /\ AttemptsReached /\ row \in RowType
      /\ UNCHANGED <<job, dispatcher, worker, operator, callback, sent, doubts>>
  BY DEF DeliveryInv, TypeOK, RowType, CancelNotice, ExpireNotice, QuietBegins, QuietEnds
<1>2. /\ row' \in RowType /\ row'.attempt = row.attempt
      /\ row'.status \in Pending => row.status \in Pending
  <2>1. CASE row' = row
    BY <1>1, <2>1
  <2>2. CASE row' = [row EXCEPT !.status = "CANCELLED"]
    BY <1>1, <2>2 DEF RowType, Statuses, Pending
  <2> QED
    BY <2>1, <2>2 DEF CancelNotice, ExpireNotice, QuietBegins, QuietEnds
<1>3. notice' \in {"PUBLISHED", "EXPIRED", "CANCELLED"} /\ quiet' \in BOOLEAN /\ nights' \in 0..MaxNights
  <2>1. notice' \in {"PUBLISHED", "EXPIRED", "CANCELLED"}
    BY <1>1 DEF TypeOK, CancelNotice, ExpireNotice, QuietBegins, QuietEnds
  <2>2. quiet' \in BOOLEAN
    BY <1>1, Zenon DEF TypeOK, CancelNotice, ExpireNotice, QuietBegins, QuietEnds
  <2>3. nights' \in 0..MaxNights
    <3>1. nights' = nights \/ (nights' = nights + 1 /\ nights < MaxNights)
      BY DEF CancelNotice, ExpireNotice, QuietBegins, QuietEnds
    <3>2. nights \in 0..MaxNights
      BY <1>1 DEF TypeOK
    <3> QED
      BY <3>1, <3>2, ConstantsAssumption
  <2> QED
    BY <2>1, <2>2, <2>3
<1>4. TypeOK' /\ Bounded'
  BY <1>1, <1>2, <1>3 DEF TypeOK, RowType, Bounded
<1> QED
  BY <1>1, <1>2, <1>4, ReachedKept, RowWritten DEF DeliveryInv, Unmoved

LEMMA JobResumesKeeps ==
  ASSUME DeliveryInv, NEW a \in Attempts, JobResumes(a)
  PROVE  DeliveryInv'
<1>1. /\ TypeOK /\ Bounded /\ AttemptsReached /\ job \in [Attempts -> Job]
      /\ worker \in [Workers -> {Idle} \cup Run]
      /\ UNCHANGED <<row, dispatcher, worker, operator, callback, notice, quiet, nights, sent, doubts>>
  BY DEF DeliveryInv, TypeOK, JobResumes
<1>2. /\ job' \in [Attempts -> Job] /\ job[a].st = "delayed" /\ job'[a].st = "waiting"
      /\ \A b \in Attempts : b # a => job'[b] = job[b]
  BY <1>1 DEF JobResumes, Job
<1>3. TypeOK' /\ Bounded'
  BY <1>1, <1>2 DEF TypeOK, Bounded
<1>4. AttemptsReached'
  <2>1. \A b \in Attempts : job'[b].st # "none" <=> job[b].st # "none"
    BY <1>2
  <2>2. \A w \in Workers : worker[w] # Idle => worker[w].attempt \in Attempts
    BY <1>1, RunIsNotIdle
  <2> QED
    BY <1>1, <2>1, <2>2 DEF AttemptsReached
<1>5. MessagesCounted'
  BY <1>1, <1>2, JobWritten DEF Unmoved
<1> QED
  BY <1>3, <1>4, <1>5 DEF DeliveryInv

-----------------------------------------------------------------------------
(***************************************************************************)
(* The theorems                                                            *)
(***************************************************************************)
LEMMA DeliveryInit == Init => DeliveryInv
<1> SUFFICES ASSUME Init PROVE DeliveryInv
  OBVIOUS
<1>1. 0 \in Attempts /\ 0 \in Messages /\ 0 \in 0..MaxNights /\ Tries \in 0..Tries
  BY ConstantsAssumption DEF Attempts, Messages
<1>2. job \in [Attempts -> Job]
  BY <1>1 DEF Init, Job
<1>3. TypeOK
  <2>1. row \in [status : Statuses, attempt : Attempts, msg : Messages]
    BY <1>1 DEF Init, Statuses
  <2>2. sent \in Seq(Attempts) /\ doubts \in Nat /\ nights \in 0..MaxNights
    BY <1>1 DEF Init
  <2>3. /\ worker \in [Workers -> {Idle} \cup Run] /\ operator \in [Operators -> {Idle} \cup Retry]
        /\ callback \in [Callbacks -> {Idle} \cup Report]
    BY DEF Init
  <2>4. /\ dispatcher \in {"policy", "recheck", "handoff", "unconfirmed", "done"}
        /\ notice \in {"PUBLISHED", "EXPIRED", "CANCELLED"} /\ quiet \in BOOLEAN
    BY DEF Init
  <2> QED
    BY <1>2, <2>1, <2>2, <2>3, <2>4 DEF TypeOK
<1>4. Bounded
  BY ConstantsAssumption DEF Init, Bounded
<1>5. AttemptsReached
  BY DEF Init, AttemptsReached
<1>6. Senders = {}
  BY IdleSendsNothing DEF Init, Senders
<1>7. Cardinality(Senders) = 0
  BY <1>6, FS_EmptySet
<1>8. MessagesCounted
  BY <1>7 DEF Init, MessagesCounted, Chances
<1> QED
  BY <1>3, <1>4, <1>5, <1>8 DEF DeliveryInv

LEMMA DeliveryNext == DeliveryInv /\ [Next]_vars => DeliveryInv'
<1> SUFFICES ASSUME DeliveryInv, [Next]_vars PROVE DeliveryInv'
  OBVIOUS
<1>1. CASE Dispatch
  BY <1>1, DispatchKeeps
<1>2. CASE \E w \in Workers : WorkerStep(w) \/ Stall(w)
  BY <1>2, TakeJobKeeps, CheckCurrentKeeps, EvaluatePolicyKeeps, SendKeeps, MarkDeliveryKeeps,
     StallKeeps DEF WorkerStep
<1>3. CASE \E o \in Operators : RetryReads(o) \/ RetryClaims(o) \/ RetryHandoff(o)
  BY <1>3, RetryReadsKeeps, RetryClaimsKeeps, RetryHandoffKeeps
<1>4. CASE \E k \in Callbacks :
             \/ \E m \in DOMAIN sent, s \in {"SENT", "DELIVERED", "FAILED"}, b \in BOOLEAN :
                  CallbackReads(k, m, s, b)
             \/ CallbackWrites(k)
  BY <1>4, CallbackReadsKeeps, CallbackWritesKeeps
<1>5. CASE CancelNotice \/ ExpireNotice \/ QuietBegins \/ QuietEnds
  BY <1>5, NoticeAndClockKeep
<1>6. CASE \E a \in Attempts : JobResumes(a)
  BY <1>6, JobResumesKeeps
<1>7. CASE UNCHANGED vars
  BY <1>7 DEF vars, DeliveryInv, TypeOK, Bounded, AttemptsReached, MessagesCounted, Chances,
     Senders, Opening, RunsOf
<1> QED
  BY <1>1, <1>2, <1>3, <1>4, <1>5, <1>6, <1>7 DEF Next

\* The invariant, for any number of workers, operators and provider reports.
THEOREM DeliverySafe == Spec => []DeliveryInv
  BY DeliveryInit, DeliveryNext, PTL DEF Spec

\* Every variable has its type.  (NotificationDelivery, schema.prisma:4475-4504)
THEOREM DeliveryTyped == Spec => []TypeOK
<1>1. DeliveryInv => TypeOK
  BY DEF DeliveryInv
<1> QED
  BY <1>1, DeliverySafe, PTL

\* Nobody is notified twice without a reason, whatever acknowledgements and
\* replies are lost, workers stall and operators retry at the same time.
\* (markDelivery, notifications.processor.ts, and dispatchRetry,
\* delivery-retry.service.ts)
THEOREM DuplicatesAreExplained == Spec => []NoUnexplainedDuplicate
<1>1. DeliveryInv => NoUnexplainedDuplicate
  <2> SUFFICES ASSUME DeliveryInv PROVE NoUnexplainedDuplicate
    OBVIOUS
  <2>1. Senders \in SUBSET Workers
    BY DEF Senders
  <2>2. PICK S : S = Senders
    OBVIOUS
  <2>3. Cardinality(S) \in Nat
    BY <2>1, <2>2, Counts
  <2>4. Len(sent) + (Cardinality(S) + (IF Opening THEN 1 ELSE 0)) <= 1 + doubts
    BY <2>2 DEF DeliveryInv, MessagesCounted, Chances
  <2>5. Len(sent) \in Nat /\ doubts \in Nat
    BY DEF DeliveryInv, TypeOK
  <2> QED
    BY <2>3, <2>4, <2>5 DEF NoUnexplainedDuplicate
<1> QED
  BY <1>1, DeliverySafe, PTL

-----------------------------------------------------------------------------
(***************************************************************************)
(* Without provider reports: a report names the row and no attempt, so it  *)
(* may write any status at any time.                                       *)
(***************************************************************************)
\* What the row of a step without provider reports may become.
LEMMA RowSteps ==
  ASSUME TypeOK, Callbacks = {}, [Next]_vars
  PROVE  \/ row' = row
         \/ row.status \in Pending /\ row'.attempt = row.attempt
            /\ row'.status \in {"SKIPPED", "FAILED", "RETRY_PENDING", "CANCELLED"}
         \/ row.status \in Pending /\ row'.status = "RETRY_PENDING"
         \/ \E w \in Workers : /\ worker[w].pc = "mark" /\ OpenFor(worker[w].attempt)
                               /\ row'.attempt = row.attempt /\ row'.status = worker[w].result
<1>1. row \in RowType
  BY DEF TypeOK, RowType
<1>2. CASE Dispatch
  BY <1>1, <1>2 DEF Dispatch, DispatchPolicy, DispatchRecheck, DispatchHandoff, DispatchUnconfirmed,
     FirstAttempt, Pending, RowType
<1>3. ASSUME NEW w \in Workers, WorkerStep(w) \/ Stall(w), row' # row
      PROVE  /\ worker[w].pc = "mark" /\ OpenFor(worker[w].attempt)
             /\ row'.attempt = row.attempt /\ row'.status = worker[w].result
  <2>1. MarkDelivery(w)
    BY <1>3 DEF WorkerStep, TakeJob, CheckCurrent, EvaluatePolicy, Send, Stall
  <2>2. PICK m : m = IF worker[w].msg = 0 THEN row.msg ELSE worker[w].msg
    OBVIOUS
  <2>3. /\ worker[w].pc = "mark" /\ OpenFor(worker[w].attempt)
        /\ row' = [row EXCEPT !.status = worker[w].result, !.msg = m]
    BY <1>3, <2>1, <2>2 DEF MarkDelivery
  <2> QED
    BY <1>1, <2>3 DEF RowType
<1>4. CASE \E o \in Operators : RetryReads(o) \/ RetryClaims(o) \/ RetryHandoff(o)
  BY <1>1, <1>4 DEF RetryReads, RetryClaims, RetryHandoff, Claimable, Pending, RowType
<1>5. CASE CancelNotice \/ ExpireNotice \/ QuietBegins \/ QuietEnds
  BY <1>1, <1>5 DEF CancelNotice, ExpireNotice, QuietBegins, QuietEnds, Pending, RowType
<1>6. CASE \E a \in Attempts : JobResumes(a)
  BY <1>6 DEF JobResumes
<1>7. CASE UNCHANGED vars
  BY <1>7 DEF vars
<1> QED
  BY <1>2, <1>3, <1>4, <1>5, <1>6, <1>7 DEF Next

\* A delivery that was cancelled or skipped is never reopened by a worker, a
\* dispatch or a retry that had read it before.  (initialAttemptWhere and
\* dispatchRetry; without provider reports)  It is the status of the row that
\* stays: a worker that is past its check may still send its message.
THEOREM WithdrawnForGood == ASSUME Callbacks = {} PROVE Spec => WithdrawnStaysWithdrawn
<1>1. TypeOK /\ [Next]_vars => [row.status \in {"CANCELLED", "SKIPPED"} => row'.status = row.status]_vars
  <2> SUFFICES ASSUME TypeOK, [Next]_vars, row.status \in {"CANCELLED", "SKIPPED"}
               PROVE  row'.status = row.status
    BY DEF vars
  <2>1. row.status \notin Pending
    BY DEF Pending
  <2> QED
    BY <2>1, RowSteps DEF OpenFor
<1> QED
  BY <1>1, DeliveryTyped, PTL DEF Spec, WithdrawnStaysWithdrawn

LEMMA AcceptedNext ==
  ASSUME TypeOK, TypeOK', AcceptedInv, Callbacks = {}, [Next]_vars
  PROVE  AcceptedInv'
<1>1. worker \in [Workers -> {Idle} \cup Run] /\ sent \in Seq(Attempts) /\ row \in RowType
  BY DEF TypeOK, RowType
<1>2. \A a : AcceptedIn(sent, a) => AcceptedIn(sent', a)
  <2>1. sent' = sent \/ \E w \in Workers : sent' = Append(sent, worker[w].attempt)
    BY DEF Next, vars, Dispatch, DispatchPolicy, DispatchRecheck, DispatchHandoff, DispatchUnconfirmed,
       WorkerStep, TakeJob, CheckCurrent, EvaluatePolicy, Send, MarkDelivery, Stall, RetryReads,
       RetryClaims, RetryHandoff, CancelNotice, ExpireNotice, QuietBegins, QuietEnds, JobResumes
  <2>2. \A m \in DOMAIN sent : m \in DOMAIN sent' /\ sent'[m] = sent[m]
    BY <1>1, <2>1
  <2> QED
    BY <2>2 DEF AcceptedIn
<1>3. ASSUME NEW w \in Workers, worker'[w].pc = "mark", worker'[w].result = "SENT"
      PROVE  AcceptedIn(sent', worker'[w].attempt)
  <2>1. CASE worker'[w] = worker[w]
    <3>1. worker[w] # Idle
      BY <1>3, <2>1 DEF Idle
    <3> QED
      BY <1>2, <1>3, <2>1, <3>1 DEF AcceptedInv
  <2>2. CASE worker'[w] # worker[w]
    <3>1. \/ \E a \in Attempts : TakeJob(w, a)
          \/ CheckCurrent(w) \/ EvaluatePolicy(w) \/ Send(w) \/ MarkDelivery(w) \/ Stall(w)
      <4>1. \E v \in Workers : WorkerStep(v) \/ Stall(v)
        BY <2>2 DEF Next, vars, Dispatch, DispatchPolicy, DispatchRecheck, DispatchHandoff,
           DispatchUnconfirmed, RetryReads, RetryClaims, RetryHandoff, CancelNotice, ExpireNotice,
           QuietBegins, QuietEnds, JobResumes
      <4>2. PICK v \in Workers : WorkerStep(v) \/ Stall(v)
        BY <4>1
      <4>3. v = w
        BY <1>1, <2>2, <4>2 DEF WorkerStep, TakeJob, CheckCurrent, Ends, EvaluatePolicy, Decide, Send,
           MarkDelivery, Stall
      <4> QED
        BY <4>2, <4>3 DEF WorkerStep
    <3>2. PICK r : r = worker[w]
      OBVIOUS
    <3>3. w \in DOMAIN worker /\ (r.pc # "idle" => r \in Run)
      BY <1>1, <3>2 DEF Idle
    <3>4. CASE \E a \in Attempts : TakeJob(w, a)
      BY <1>3, <2>2, <3>3, <3>4 DEF TakeJob
    <3>5. CASE CheckCurrent(w)
      <4>1. worker' = [worker EXCEPT ![w] = [r EXCEPT !.pc = "policy"]] \/ worker' = [worker EXCEPT ![w] = Idle]
        BY <3>2, <3>3, <3>5 DEF CheckCurrent, Ends
      <4> QED
        BY <1>3, <3>2, <3>3, <3>5, <4>1 DEF Run, Idle, CheckCurrent
    <3>6. CASE EvaluatePolicy(w)
      <4>1. \/ worker' = [worker EXCEPT ![w] = [r EXCEPT !.pc = "send"]]
            \/ \E res \in {"SKIPPED", "RETRY_PENDING"} :
                 worker' = [worker EXCEPT ![w] = [r EXCEPT !.pc = "mark", !.result = res, !.msg = 0]]
        BY <3>2, <3>3, <3>6 DEF EvaluatePolicy, Decide
      <4> QED
        BY <1>3, <3>2, <3>3, <3>6, <4>1 DEF Run, EvaluatePolicy
    <3>7. CASE Send(w)
      <4>1. PICK res, m : worker' = [worker EXCEPT ![w] = [r EXCEPT !.pc = "mark", !.result = res, !.msg = m]]
                          /\ (res = "SENT" => sent' = Append(sent, r.attempt))
        <5>1. PICK res, m : Decide(w, res, m) /\ (res = "SENT" => sent' = Append(sent, r.attempt))
          BY <3>2, <3>7 DEF Send
        <5>2. worker' = [worker EXCEPT ![w] = [r EXCEPT !.pc = "mark", !.result = res, !.msg = m]]
          BY <3>2, <3>3, <5>1 DEF Decide
        <5> QED
          BY <5>1, <5>2
      <4>2. worker'[w].result = res /\ worker'[w].attempt = r.attempt
        BY <3>2, <3>3, <3>7, <4>1 DEF Run, Send
      <4>3. sent' = Append(sent, r.attempt) /\ Len(sent) \in Nat
        BY <1>1, <1>3, <4>1, <4>2
      <4>4. Len(sent) + 1 \in DOMAIN sent' /\ sent'[Len(sent) + 1] = r.attempt
        BY <1>1, <4>3
      <4> QED
        BY <4>2, <4>4 DEF AcceptedIn
    <3>8. CASE MarkDelivery(w)
      BY <1>3, <3>3, <3>8 DEF MarkDelivery, Idle
    <3>9. CASE Stall(w)
      <4>1. worker' = [worker EXCEPT ![w] = [r EXCEPT !.owns = FALSE]] \/ worker' = [worker EXCEPT ![w] = Idle]
        BY <3>2, <3>3, <3>9 DEF Stall
      <4>2. r # Idle /\ r \in Run
        BY <1>1, <3>2, <3>9 DEF Stall
      <4>3. r.pc = "mark" /\ r.result = "SENT" /\ worker'[w].attempt = r.attempt
        BY <1>3, <3>3, <4>1, <4>2 DEF Run, Idle
      <4> QED
        BY <1>2, <3>2, <4>2, <4>3 DEF AcceptedInv
    <3> QED
      BY <3>1, <3>4, <3>5, <3>6, <3>7, <3>8, <3>9
  <2> QED
    BY <2>1, <2>2
<1>4. SentWasAccepted'
  <2> SUFFICES ASSUME row'.status = "SENT" PROVE AcceptedIn(sent', row'.attempt)
    BY DEF SentWasAccepted, AcceptedIn
  <2>1. CASE row' = row
    BY <1>2, <2>1 DEF AcceptedInv, SentWasAccepted, AcceptedIn
  <2>2. CASE row' # row
    <3>1. PICK w \in Workers : /\ worker[w].pc = "mark" /\ OpenFor(worker[w].attempt)
                               /\ row'.attempt = row.attempt /\ worker[w].result = "SENT"
      BY <2>2, RowSteps
    <3>2. worker[w] # Idle
      BY <3>1 DEF Idle
    <3> QED
      BY <1>2, <3>1, <3>2 DEF AcceptedInv, OpenFor
  <2> QED
    BY <2>1, <2>2
<1> QED
  BY <1>3, <1>4 DEF AcceptedInv

\* SENT is never written for an attempt the provider did not accept: a late
\* worker of an earlier attempt cannot answer for the current one.
\* (markDelivery, notifications.processor.ts; without provider reports)
THEOREM SentIsAccepted == ASSUME Callbacks = {} PROVE Spec => []SentWasAccepted
<1>1. Init => AcceptedInv
  BY DEF Init, AcceptedInv, SentWasAccepted
<1>2. TypeOK /\ TypeOK' /\ AcceptedInv /\ [Next]_vars => AcceptedInv'
  BY AcceptedNext
<1>3. AcceptedInv => SentWasAccepted
  BY DEF AcceptedInv
<1> QED
  BY <1>1, <1>2, <1>3, DeliveryTyped, PTL DEF Spec

=============================================================================
