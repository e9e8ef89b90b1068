------------------------- MODULE OnlinePaymentsProofs -------------------------
(***************************************************************************)
(* Online payments: only confirmed money is credited, an intent is settled *)
(* exactly when its payment exists, and no money is behind a closed one,   *)
(* however callbacks, clients, the sweep and the cashiers interleave.      *)
(***************************************************************************)
EXTENDS OnlinePayments, FeeAllocationsProofs

-----------------------------------------------------------------------------
(***************************************************************************)
(* The inductive invariant                                                 *)
(***************************************************************************)
IntentRows == [status : Unsettled \cup {"none", "SUCCEEDED"}, invoice : Invoices \cup {Advance},
               amount : Nat, ref : BOOLEAN, parked : BOOLEAN, started : BOOLEAN]

Typed ==
  /\ intent \in [Online -> IntentRows]
  /\ prov \in [Online -> {"none", "pending", "paid", "other", "failed"}]
  /\ clock \in [Online -> {Fresh, Stale, Expired}]
  /\ DOMAIN job = Verifiers

\* The provider will never take money for the intent: it has said no, it has
\* no checkout and gets none, or the checkout is past its expiry.
NotPayable(x) ==
  \/ prov[x] = "failed"
  \/ prov[x] = "none" /\ intent[x].started
  \/ prov[x] = "pending" /\ clock[x] = Expired

\* Before its initiation has ended an intent has no checkout and no age, a
\* closed one cannot be paid, and only money that came is parked.
IntentHolds(x) ==
  /\ intent[x].status = "none" => ~intent[x].started
  /\ intent[x].status # "none" => intent[x].invoice \in Invoices /\ intent[x].amount > 0
  /\ ~intent[x].started => prov[x] = "none" /\ clock[x] = Fresh
  /\ intent[x].status \in Closed => NotPayable(x)
  /\ intent[x].parked => intent[x].status = "PENDING" /\ prov[x] \in {"paid", "other"}
  /\ intent[x].status = "SUCCEEDED" <=> pay[x].status # "none"
  /\ pay[x].status # "none" => prov[x] = "paid"

\* What a verification holds is still so when it acts: what it read of the
\* intent and the clock is past, what the provider said is final.
JobHolds(j) ==
  /\ j.x \in Online /\ intent[j.x].status # "none"
  /\ j.stage = "ask" => /\ j.lost => intent[j.x].started
                        /\ j.past => clock[j.x] = Expired
  /\ j.stage \in Closed => NotPayable(j.x)
  /\ j.stage = "exception" => prov[j.x] = "other"
  /\ j.stage \in {"settle", "room", "tx"} => prov[j.x] = "paid"

\* The sweep has read intents that exist, and they have not become younger.
BatchHolds(c) ==
  /\ c.x \in Online /\ intent[c.x].status # "none"
  /\ c.age # Fresh => intent[c.x].started
  /\ c.age = Expired => clock[c.x] = Expired

OnlineInv ==
  /\ FeeInv({}) /\ Typed
  /\ \A x \in Online : IntentHolds(x)
  /\ \A c \in batch : BatchHolds(c)
  /\ \A v \in Verifiers : job[v] # Idle => JobHolds(job[v])

LEMMA OnlineInit == ASSUME Init PROVE OnlineInv
<1>1. FeeInv({})
  BY FeeInitHolds DEF Init
<1>2. NoIntent \in IntentRows
  BY DEF NoIntent, IntentRows, Unsettled, Open, Closed
<1>3. Typed
  BY <1>2 DEF Init, Typed
<1>4. \A x \in Online : IntentHolds(x)
  <2>1. \A x \in Online : pay[x].status = "none"
    BY FeeAssumption DEF Init, FeeInit
  <2> QED
    BY <2>1 DEF Init, IntentHolds, NoIntent, Closed
<1>5. batch = {} /\ \A v \in Verifiers : job[v] = Idle
  BY DEF Init
<1> QED
  BY <1>1, <1>3, <1>4, <1>5 DEF OnlineInv

-----------------------------------------------------------------------------
(***************************************************************************)
(* What a step may do to an intent that verifications know                 *)
(***************************************************************************)
\* It does not become unknown or younger, and what is final stays.
Forwards(x) ==
  /\ intent[x].status # "none" => intent'[x].status # "none"
  /\ intent[x].started => intent'[x].started
  /\ clock[x] = Expired => clock'[x] = Expired
  /\ prov[x] \in {"paid", "other", "failed"} => prov'[x] = prov[x]
  /\ NotPayable(x) => NotPayable(x)'

LEMMA JobForwards ==
  ASSUME NEW j, JobHolds(j), \A x \in Online : Forwards(x)
  PROVE  JobHolds(j)'
<1>1. PICK x \in Online : x = j.x
  BY DEF JobHolds
<1>2. Forwards(x)
  OBVIOUS
<1> QED
  BY <1>1, <1>2 DEF JobHolds, Forwards

LEMMA BatchForwards ==
  ASSUME NEW c, BatchHolds(c), \A x \in Online : Forwards(x)
  PROVE  BatchHolds(c)'
  BY DEF BatchHolds, Forwards

\* Steps that change one intent at most, and end verifications at most.
LEMMA OneIntent ==
  ASSUME OnlineInv, NEW x \in Online, UNCHANGED feeVars, Typed',
         \A y \in Online : y # x => /\ intent'[y] = intent[y] /\ prov'[y] = prov[y]
                                    /\ clock'[y] = clock[y],
         IntentHolds(x)', Forwards(x), batch' \subseteq batch,
         \A v \in Verifiers : job'[v] = Idle \/ job'[v] = job[v]
  PROVE  OnlineInv'
<1>1. FeeInv({})'
  BY FeeUnchanged DEF OnlineInv, FeeInv, FeeTyped, Requested, feeVars
<1>2. ASSUME NEW y \in Online PROVE IntentHolds(y)' /\ Forwards(y)
  <2>1. CASE y = x
    BY <2>1
  <2>2. CASE y # x
    <3>1. IntentHolds(y)'
      BY <2>2 DEF OnlineInv, IntentHolds, NotPayable, feeVars
    <3>2. Forwards(y)
      BY <2>2 DEF Forwards, NotPayable
    <3> QED
      BY <3>1, <3>2
  <2> QED
    BY <2>1, <2>2
<1>3. ASSUME NEW v \in Verifiers, job'[v] # Idle PROVE JobHolds(job[v])'
  <2>1. PICK j : j = job[v]
    OBVIOUS
  <2>2. job'[v] = j /\ JobHolds(j)
    BY <1>3, <2>1 DEF OnlineInv
  <2>3. JobHolds(j)'
    BY <1>2, <2>2, JobForwards
  <2> QED
    BY <2>2, <2>3
<1>4. ASSUME NEW c \in batch' PROVE BatchHolds(c)'
  BY <1>2, BatchForwards DEF OnlineInv
<1> QED
  BY <1>1, <1>2, <1>3, <1>4 DEF OnlineInv

\* Steps of one verification that change nothing else.
LEMMA OneJob ==
  ASSUME OnlineInv, NEW v \in Verifiers, NEW j, j = Idle \/ JobHolds(j),
         job' = [job EXCEPT ![v] = j], \A c \in batch' : BatchHolds(c),
         UNCHANGED <<feeVars, intentVars>>
  PROVE  OnlineInv'
<1> USE DEF feeVars, intentVars
<1>1. FeeInv({})'
  BY FeeUnchanged DEF OnlineInv, FeeInv, FeeTyped, Requested
<1>2. Typed'
  BY DEF OnlineInv, Typed
<1>3. \A x \in Online : IntentHolds(x)'
  BY DEF OnlineInv, IntentHolds, NotPayable
<1>4. ASSUME NEW u \in Verifiers, job'[u] # Idle PROVE JobHolds(job[u])'
  <2>1. PICK k : k = job'[u]
    OBVIOUS
  <2>2. JobHolds(k)
    BY <1>4, <2>1 DEF OnlineInv, Typed
  <2>3. \A x \in Online : Forwards(x)
    BY DEF Forwards, NotPayable
  <2>4. JobHolds(k)'
    BY <2>2, <2>3, JobForwards
  <2> QED
    BY <2>1, <2>4
<1>5. \A c \in batch' : BatchHolds(c)'
  BY DEF BatchHolds
<1> QED
  BY <1>1, <1>2, <1>3, <1>4, <1>5 DEF OnlineInv

-----------------------------------------------------------------------------
(***************************************************************************)
(* Cashiers, intents and the environment                                   *)
(***************************************************************************)
LEMMA FeeStepOnline ==
  ASSUME OnlineInv, NEW w \in Workers, FeeStep(w), UNCHANGED <<intentVars, batch, job>>
  PROVE  OnlineInv'
<1> USE DEF intentVars
<1>1. FeeInv({})' /\ Onward
  BY FeeStepKeeps DEF OnlineInv
<1>2. Typed'
  BY DEF OnlineInv, Typed
<1>3. ASSUME NEW x \in Online PROVE IntentHolds(x)' /\ Forwards(x)
  <2>1. pay'[x] = pay[x]
    BY <1>1, FeeAssumption DEF Onward
  <2> QED
    BY <2>1 DEF OnlineInv, IntentHolds, NotPayable, Forwards
<1>4. ASSUME NEW v \in Verifiers, job'[v] # Idle PROVE JobHolds(job[v])'
  <2>1. PICK j : j = job[v]
    OBVIOUS
  <2>2. job'[v] = j /\ JobHolds(j)
    BY <1>4, <2>1 DEF OnlineInv
  <2>3. JobHolds(j)'
    BY <1>3, <2>2, JobForwards
  <2> QED
    BY <2>2, <2>3
<1>5. \A c \in batch' : BatchHolds(c)'
  BY DEF OnlineInv, BatchHolds
<1> QED
  BY <1>1, <1>2, <1>3, <1>4, <1>5 DEF OnlineInv

\* The row of one intent is written.
LEMMA IntentWritten ==
  ASSUME OnlineInv, NEW x \in Online, NEW new \in IntentRows, intent' = [intent EXCEPT ![x] = new]
  PROVE  /\ intent' \in [Online -> IntentRows]
         /\ intent'[x] = new
         /\ \A y \in Online : y # x => intent'[y] = intent[y]
  BY DEF OnlineInv, Typed

LEMMA CreateOnline ==
  ASSUME OnlineInv, CreateOnlinePaymentIntent
  PROVE  OnlineInv'
<1>1. PICK x \in Online, i \in Invoices : \E amount \in 1..(inv[i].total - NetPaid(i)) :
        /\ intent[x].status = "none"
        /\ intent' = [intent EXCEPT ![x] =
                        [NoIntent EXCEPT !.status = "CREATED", !.invoice = i, !.amount = amount]]
        /\ UNCHANGED <<feeVars, prov, clock, active, batch, job>>
  BY DEF CreateOnlinePaymentIntent, Write
<1>2. PICK amount \in 1..(inv[i].total - NetPaid(i)) :
        /\ intent[x].status = "none"
        /\ intent' = [intent EXCEPT ![x] =
                        [NoIntent EXCEPT !.status = "CREATED", !.invoice = i, !.amount = amount]]
        /\ UNCHANGED <<feeVars, prov, clock, active, batch, job>>
  BY <1>1
<1>3. PICK new : new = [NoIntent EXCEPT !.status = "CREATED", !.invoice = i, !.amount = amount]
  OBVIOUS
<1>4. /\ new \in IntentRows /\ new.status = "CREATED" /\ new.invoice = i /\ new.amount > 0
      /\ new.started = FALSE /\ new.parked = FALSE
  <2>1. amount \in Nat /\ amount > 0
    BY <1>2
  <2> HIDE <1>2
  <2> QED
    BY <1>3, <2>1 DEF NoIntent, IntentRows, Unsettled, Open
<1>5. /\ intent' \in [Online -> IntentRows] /\ intent'[x] = new
      /\ \A y \in Online : y # x => intent'[y] = intent[y]
  BY <1>2, <1>3, <1>4, IntentWritten
<1>6. IntentHolds(x) /\ ~intent[x].started
  BY <1>2 DEF OnlineInv, IntentHolds
<1>7. IntentHolds(x)'
  BY <1>2, <1>4, <1>5, <1>6 DEF IntentHolds, Closed, feeVars
<1>8. Forwards(x)
  BY <1>2, <1>4, <1>5, <1>6 DEF Forwards, IntentHolds, NotPayable
<1>9. Typed'
  BY <1>2, <1>5 DEF OnlineInv, Typed
<1> QED
  BY <1>2, <1>5, <1>7, <1>8, <1>9, OneIntent

\* The initiation ends, whatever came of it.
LEMMA InitiationOnline ==
  ASSUME OnlineInv, InitiationReady \/ InitiationRefused \/ InitiationUncertain
  PROVE  OnlineInv'
<1>0. PICK x \in Online, p \in {"none", "pending"} : \E new :
        /\ Starting(x)
        /\ intent' = [intent EXCEPT ![x] = new]
        /\ prov' = [prov EXCEPT ![x] = p]
        /\ new \in IntentRows /\ new.started = TRUE
        /\ new.parked = intent[x].parked /\ new.invoice = intent[x].invoice
        /\ new.amount = intent[x].amount
        /\ new.status \in {"READY", "FAILED", intent[x].status}
        /\ new.status = "FAILED" => p = "none" \/ intent[x].status = "FAILED"
        /\ UNCHANGED <<feeVars, clock, active, batch, job>>
  <2>1. ASSUME NEW x \in Online PROVE intent[x] \in IntentRows
    BY DEF OnlineInv, Typed
  <2>2. CASE InitiationReady
    <3>1. PICK x \in Online :
            /\ Starting(x)
            /\ intent' = [intent EXCEPT ![x] = [intent[x] EXCEPT !.status = "READY", !.ref = TRUE,
                                                                 !.started = TRUE]]
            /\ prov' = [prov EXCEPT ![x] = "pending"]
            /\ UNCHANGED <<feeVars, clock, active, batch, job>>
      BY <2>2 DEF InitiationReady, Write
    <3>2. PICK new : new = [intent[x] EXCEPT !.status = "READY", !.ref = TRUE, !.started = TRUE]
      OBVIOUS
    <3>3. /\ new \in IntentRows /\ new.started = TRUE
          /\ new.parked = intent[x].parked /\ new.invoice = intent[x].invoice
          /\ new.amount = intent[x].amount /\ new.status = "READY"
      BY <2>1, <3>2 DEF IntentRows, Unsettled, Open
    <3> QED
      BY <3>1, <3>2, <3>3
  <2>3. CASE InitiationRefused
    <3>1. PICK x \in Online :
            /\ Starting(x)
            /\ intent' = [intent EXCEPT ![x] = [intent[x] EXCEPT !.status = "FAILED", !.started = TRUE]]
            /\ UNCHANGED <<feeVars, prov, clock, active, batch, job>>
      BY <2>3 DEF InitiationRefused, Write
    <3>2. PICK new : new = [intent[x] EXCEPT !.status = "FAILED", !.started = TRUE]
      OBVIOUS
    <3>3. /\ new \in IntentRows /\ new.started = TRUE
          /\ new.parked = intent[x].parked /\ new.invoice = intent[x].invoice
          /\ new.amount = intent[x].amount /\ new.status = "FAILED"
      BY <2>1, <3>2 DEF IntentRows, Unsettled, Closed
    <3>4. prov[x] = "none" /\ prov' = [prov EXCEPT ![x] = "none"]
      BY <3>1 DEF OnlineInv, IntentHolds, Starting, Typed
    <3> QED
      BY <3>1, <3>2, <3>3, <3>4
  <2>4. CASE InitiationUncertain
    <3>1. PICK x \in Online, p \in {"none", "pending"} :
            /\ Starting(x)
            /\ intent' = [intent EXCEPT ![x] = [intent[x] EXCEPT !.started = TRUE]]
            /\ prov' = [prov EXCEPT ![x] = p]
            /\ UNCHANGED <<feeVars, clock, active, batch, job>>
      BY <2>4 DEF InitiationUncertain, Write
    <3>2. PICK new : new = [intent[x] EXCEPT !.started = TRUE]
      OBVIOUS
    <3>3. /\ new \in IntentRows /\ new.started = TRUE
          /\ new.parked = intent[x].parked /\ new.invoice = intent[x].invoice
          /\ new.amount = intent[x].amount /\ new.status = intent[x].status
      BY <2>1, <3>2 DEF IntentRows
    <3> QED
      BY <3>1, <3>2, <3>3
  <2> QED
    BY <2>2, <2>3, <2>4
<1>1. PICK new :
        /\ Starting(x)
        /\ intent' = [intent EXCEPT ![x] = new]
        /\ prov' = [prov EXCEPT ![x] = p]
        /\ new \in IntentRows /\ new.started = TRUE
        /\ new.parked = intent[x].parked /\ new.invoice = intent[x].invoice
        /\ new.amount = intent[x].amount
        /\ new.status \in {"READY", "FAILED", intent[x].status}
        /\ new.status = "FAILED" => p = "none" \/ intent[x].status = "FAILED"
        /\ UNCHANGED <<feeVars, clock, active, batch, job>>
  BY <1>0
<1>2. /\ intent' \in [Online -> IntentRows] /\ intent'[x] = new
      /\ \A y \in Online : y # x => intent'[y] = intent[y]
  BY <1>1, IntentWritten
<1>3. /\ prov'[x] = p /\ \A y \in Online : y # x => prov'[y] = prov[y]
  BY <1>1 DEF OnlineInv, Typed
<1>4. /\ IntentHolds(x) /\ intent[x].status # "none" /\ ~intent[x].started
      /\ prov[x] = "none" /\ ~intent[x].parked /\ intent[x].status \notin Closed
      /\ pay[x].status = "none" /\ intent[x].status # "SUCCEEDED"
  BY <1>1 DEF OnlineInv, IntentHolds, Starting, NotPayable
<1>5. IntentHolds(x)'
  BY <1>1, <1>2, <1>3, <1>4 DEF IntentHolds, NotPayable, Closed, feeVars
<1>6. Forwards(x)
  BY <1>1, <1>2, <1>3, <1>4 DEF Forwards, NotPayable, IntentHolds
<1>7. Typed'
  BY <1>1, <1>2 DEF OnlineInv, Typed
<1> QED
  BY <1>1, <1>2, <1>3, <1>5, <1>6, <1>7, OneIntent

\* Customers, the provider, time and the administrators of schools.
LEMMA EnvironmentOnline ==
  ASSUME OnlineInv, \/ CustomerPays \/ ProviderFails \/ SetTenantActive \/ OthersChange
                    \/ \E x \in Online : TimePasses(x) \/ Rests(x)
  PROVE  OnlineInv'
<1>1. CASE SetTenantActive \/ OthersChange \/ \E x \in Online : Rests(x)
  <2>0. UNCHANGED <<feeVars, intent, prov, clock, batch, job>>
    BY <1>1 DEF SetTenantActive, OthersChange, Rests, rowVars
  <2>1. FeeInv({})'
    BY <2>0, FeeUnchanged DEF OnlineInv, FeeInv, FeeTyped, Requested, feeVars
  <2>2. Typed' /\ \A x \in Online : IntentHolds(x)'
    BY <2>0 DEF OnlineInv, Typed, IntentHolds, NotPayable, feeVars
  <2>3. \A v \in Verifiers : job'[v] # Idle => JobHolds(job[v])'
    BY <2>0 DEF OnlineInv, JobHolds, NotPayable
  <2>4. \A c \in batch' : BatchHolds(c)'
    BY <2>0 DEF OnlineInv, BatchHolds
  <2> QED
    BY <2>1, <2>2, <2>3, <2>4 DEF OnlineInv
<1>2. CASE CustomerPays \/ ProviderFails
  <2>1. PICK x \in Online, p \in {"paid", "other", "failed"} :
          /\ prov[x] = "pending" /\ (p # "failed" => clock[x] # Expired)
          /\ prov' = [prov EXCEPT ![x] = p]
          /\ UNCHANGED <<feeVars, intent, clock, active, batch, job>>
    <3>1. CASE CustomerPays
      <4>1. PICK x \in Online, paid \in {"paid", "other"} :
              /\ prov[x] = "pending" /\ clock[x] < Expired
              /\ prov' = [prov EXCEPT ![x] = paid]
              /\ UNCHANGED <<feeVars, intent, clock, active, batch, job>>
        BY <3>1 DEF CustomerPays, rowVars
      <4>2. clock[x] # Expired
        BY <4>1 DEF Expired
      <4> QED
        BY <4>1, <4>2
    <3>2. CASE ProviderFails
      BY <3>2 DEF ProviderFails, rowVars
    <3> QED
      BY <1>2, <3>1, <3>2
  <2>2. /\ prov'[x] = p /\ \A y \in Online : y # x => prov'[y] = prov[y]
    BY <2>1 DEF OnlineInv, Typed
  <2>3. Typed'
    BY <2>1 DEF OnlineInv, Typed
  <2>4. IntentHolds(x)'
    BY <2>1, <2>2 DEF OnlineInv, IntentHolds, NotPayable, feeVars
  <2>5. Forwards(x)
    BY <2>1, <2>2 DEF Forwards, NotPayable
  <2> QED
    BY <2>1, <2>2, <2>3, <2>4, <2>5, OneIntent
<1>3. CASE \E x \in Online : TimePasses(x)
  <2>1. PICK x \in Online : TimePasses(x)
    BY <1>3
  <2>2. /\ clock'[x] = clock[x] + 1 /\ clock[x] # Expired /\ clock[x] \in {0, 1}
        /\ \A y \in Online : y # x => clock'[y] = clock[y]
        /\ clock' \in [Online -> {Fresh, Stale, Expired}]
    BY <2>1 DEF TimePasses, rowVars, OnlineInv, Typed, Fresh, Stale, Expired
  <2>3. Typed'
    BY <2>1, <2>2 DEF TimePasses, rowVars, OnlineInv, Typed
  <2>4. IntentHolds(x)'
    BY <2>1, <2>2 DEF TimePasses, rowVars, OnlineInv, IntentHolds, NotPayable, feeVars
  <2>5. Forwards(x)
    BY <2>1, <2>2 DEF TimePasses, rowVars, Forwards, NotPayable
  <2> QED
    BY <2>1, <2>2, <2>3, <2>4, <2>5, OneIntent DEF TimePasses, rowVars
<1> QED
  BY <1>1, <1>2, <1>3

-----------------------------------------------------------------------------
(***************************************************************************)
(* Verifications                                                           *)
(***************************************************************************)
LEMMA StartOnline ==
  ASSUME OnlineInv, NEW v \in Verifiers, NEW x \in Online, NEW hint, NEW age,
         Start(v, x, hint, age),
         age # Fresh => intent[x].started, age = Expired => clock[x] = Expired,
         batch' \subseteq batch
  PROVE  OnlineInv'
<1> DEFINE j == [x |-> x, stage |-> "ask", hint |-> hint,
                 early |-> intent[x].status \in {"CREATED", "READY"},
                 lost |-> InitiationLost(x, age), past |-> PastExpiry(age)]
<1>1. /\ intent[x].status \notin {"none", "SUCCEEDED"}
      /\ job' = [job EXCEPT ![v] = j] /\ UNCHANGED <<feeVars, intentVars>>
  BY DEF Start
<1>2. JobHolds(j)
  <2>1. InitiationLost(x, age) => intent[x].started
    BY DEF InitiationLost, Fresh, Stale
  <2> QED
    BY <1>1, <2>1 DEF JobHolds, PastExpiry, Closed
<1>3. \A c \in batch' : BatchHolds(c)
  BY DEF OnlineInv
<1> HIDE DEF j
<1> QED
  BY <1>1, <1>2, <1>3, OneJob

\* A callback or client asks at the time of its request.
LEMMA CallersOnline ==
  ASSUME OnlineInv, NEW v \in Callers, Callback(v) \/ ClientConfirm(v)
  PROVE  OnlineInv'
<1>1. PICK x \in Online, hint \in BOOLEAN : Start(v, x, hint, clock[x]) /\ UNCHANGED batch
  BY DEF Callback, ClientConfirm
<1>2. v \in Verifiers /\ (clock[x] # Fresh => intent[x].started)
  BY DEF Verifiers, OnlineInv, IntentHolds
<1> QED
  BY <1>1, <1>2, StartOnline

\* Steps of the sweep that start no verification.
LEMMA OneBatch ==
  ASSUME OnlineInv, \A c \in batch' : BatchHolds(c), UNCHANGED <<feeVars, intentVars, job>>
  PROVE  OnlineInv'
<1> USE DEF feeVars, intentVars
<1>1. FeeInv({})'
  BY FeeUnchanged DEF OnlineInv, FeeInv, FeeTyped, Requested
<1>2. Typed' /\ \A x \in Online : IntentHolds(x)'
  BY DEF OnlineInv, Typed, IntentHolds, NotPayable
<1>3. \A v \in Verifiers : job'[v] # Idle => JobHolds(job[v])'
  BY DEF OnlineInv, JobHolds, NotPayable
<1>4. \A c \in batch' : BatchHolds(c)'
  BY DEF BatchHolds
<1> QED
  BY <1>1, <1>2, <1>3, <1>4 DEF OnlineInv

LEMMA StartSweepOnline ==
  ASSUME OnlineInv, StartSweep
  PROVE  OnlineInv'
<1>1. /\ UNCHANGED <<feeVars, intentVars, job>>
      /\ batch' = {[x |-> x, age |-> clock[x]] : x \in {y \in Online : Candidate(y) /\ ~crowded[y]}}
  BY DEF StartSweep
<1>2. ASSUME NEW c \in batch' PROVE BatchHolds(c)
  <2>1. PICK x \in Online : Candidate(x) /\ c = [x |-> x, age |-> clock[x]]
    BY <1>1
  <2>2. intent[x].status # "none" /\ (clock[x] # Fresh => intent[x].started)
    BY <2>1 DEF OnlineInv, IntentHolds, Candidate, Open
  <2> QED
    BY <2>1, <2>2 DEF BatchHolds
<1> QED
  BY <1>1, <1>2, OneBatch

LEMMA ReconcileOnline ==
  ASSUME OnlineInv, NEW x \in Online, Reconcile(x)
  PROVE  OnlineInv'
<1>1. PICK c \in batch :
        /\ job[Sweep] = Idle /\ c.x = x /\ batch' = batch \ {c}
        /\ \/ Start(Sweep, x, FALSE, c.age)
           \/ UNCHANGED <<feeVars, intentVars, job>>
  BY DEF Reconcile
<1>2. BatchHolds(c) /\ batch' \subseteq batch /\ Sweep \in Verifiers
  BY <1>1 DEF OnlineInv, Verifiers
<1>3. CASE Start(Sweep, x, FALSE, c.age)
  BY <1>1, <1>2, <1>3, StartOnline DEF BatchHolds
<1>4. CASE UNCHANGED <<feeVars, intentVars, job>>
  BY <1>2, <1>4, OneBatch DEF OnlineInv
<1> QED
  BY <1>1, <1>3, <1>4

LEMMA SweepDiesOnline ==
  ASSUME OnlineInv, SweepDies
  PROVE  OnlineInv'
<1>1. Sweep \in Verifiers /\ \A c \in batch' : BatchHolds(c)
  BY DEF SweepDies, Verifiers
<1> QED
  BY <1>1, OneJob DEF SweepDies

LEMMA HearsOnline ==
  ASSUME OnlineInv, NEW v \in Verifiers, Answered(v) \/ Unavailable(v)
  PROVE  OnlineInv'
<1>1. PICK j, x, answer :
        /\ j = job[v] /\ x = j.x /\ Hears(v, answer)
        /\ answer = prov[x] \/ answer = "unavailable"
  BY DEF Answered, Unavailable
<1>2. j # Idle /\ j.stage = "ask" /\ JobHolds(j) /\ x \in Online
  BY <1>1 DEF Hears, OnlineInv, JobHolds
<1>3. PICK verdict : verdict = Verdict(j, answer)
  OBVIOUS
<1> DEFINE heard == [x |-> x, stage |-> verdict,
                     advance |-> verdict = "defer" /\ AwaitsConfirmation(j, answer)]
<1>4. job' = [job EXCEPT ![v] = heard] /\ UNCHANGED <<feeVars, intentVars, batch>>
  <2>1. v \in DOMAIN job
    BY DEF OnlineInv, Typed
  <2> QED
    BY <1>1, <1>3, <2>1 DEF Hears
<1>5. JobHolds(heard)
  <2>1. heard.x = x /\ heard.stage = verdict
    OBVIOUS
  <2>2. prov[x] \in {"none", "pending", "paid", "other", "failed"}
    BY <1>2 DEF OnlineInv, Typed
  <2>3. /\ verdict \in Closed => NotPayable(x)
        /\ verdict = "exception" => prov[x] = "other"
        /\ verdict \in {"settle", "room", "tx"} => prov[x] = "paid"
        /\ verdict # "ask"
    <3>1. /\ intent[x].status # "none"
          /\ j.lost => intent[x].started
          /\ j.past => clock[x] = Expired
      BY <1>1, <1>2 DEF JobHolds
    <3>2. j.past => intent[x].started
      BY <1>2, <3>1 DEF OnlineInv, IntentHolds, Fresh, Expired
    <3> QED
      BY <1>1, <1>3, <2>2, <3>1, <3>2 DEF Verdict, Closed, NotPayable
  <2> HIDE DEF heard
  <2> QED
    BY <1>1, <1>2, <2>1, <2>3 DEF JobHolds
<1>6. \A c \in batch' : BatchHolds(c)
  BY <1>4 DEF OnlineInv
<1> HIDE DEF heard
<1> QED
  BY <1>4, <1>5, <1>6, OneJob

\* A verification ends and writes the status of its intent where it may.
LEMMA VerdictWritten ==
  ASSUME OnlineInv, NEW v \in Verifiers, NEW x \in Online, NEW status \in Unsettled,
         NEW parked \in BOOLEAN, NEW where,
         NEW new, new = [intent[x] EXCEPT !.status = status, !.parked = parked],
         Update(x, where, new), job' = [job EXCEPT ![v] = Idle],
         UNCHANGED <<feeVars, prov, clock, batch>>,
         where \subseteq Unsettled, intent[x].status \in where =>
           /\ status \in Closed => NotPayable(x)
           /\ parked => status = "PENDING" /\ prov[x] \in {"paid", "other"}
  PROVE  OnlineInv'
<1>1. intent[x] \in IntentRows /\ IntentHolds(x)
  BY DEF OnlineInv, Typed
<1>2. /\ new \in IntentRows /\ new.status = status /\ new.parked = parked
      /\ new.started = intent[x].started /\ new.invoice = intent[x].invoice
      /\ new.amount = intent[x].amount
  BY <1>1 DEF IntentRows
<1>3. "none" \notin Unsettled /\ "SUCCEEDED" \notin Unsettled
  BY DEF Unsettled, Open, Closed
<1>4. \A u \in Verifiers : job'[u] = Idle \/ job'[u] = job[u]
  BY DEF OnlineInv, Typed
<1>5. CASE intent[x].status \in where
  <2>1. intent' = [intent EXCEPT ![x] = new]
    BY <1>5 DEF Update, Write
  <2>2. /\ intent' \in [Online -> IntentRows] /\ intent'[x] = new
        /\ \A y \in Online : y # x => intent'[y] = intent[y]
    BY <1>2, <2>1, IntentWritten
  <2>3. Typed'
    BY <2>2 DEF OnlineInv, Typed
  <2>4. IntentHolds(x)'
    BY <1>1, <1>2, <1>3, <1>5, <2>2 DEF IntentHolds, NotPayable, feeVars
  <2>5. Forwards(x)
    BY <1>2, <1>3, <2>2 DEF Forwards, NotPayable
  <2> QED
    BY <1>4, <2>2, <2>3, <2>4, <2>5, OneIntent
<1>6. CASE intent[x].status \notin where
  <2>1. UNCHANGED intent
    BY <1>6 DEF Update, rowVars
  <2>2. Typed'
    BY <2>1 DEF OnlineInv, Typed
  <2>3. IntentHolds(x)' /\ Forwards(x)
    BY <1>1, <2>1 DEF IntentHolds, NotPayable, Forwards, feeVars
  <2> QED
    BY <1>4, <2>1, <2>2, <2>3, OneIntent
<1> QED
  BY <1>5, <1>6

\* A verification ends and changes nothing.
LEMMA VerificationEnds ==
  ASSUME OnlineInv, NEW v \in Verifiers, End(v), UNCHANGED <<feeVars, intent, prov, clock, batch>>
  PROVE  OnlineInv'
<1>1. FeeInv({})'
  BY FeeUnchanged DEF OnlineInv, FeeInv, FeeTyped, Requested, feeVars
<1>2. Typed' /\ \A x \in Online : IntentHolds(x)'
  BY DEF End, OnlineInv, Typed, IntentHolds, NotPayable, feeVars
<1>3. \A u \in Verifiers : job'[u] # Idle => JobHolds(job[u])'
  BY DEF End, OnlineInv, Typed, JobHolds, NotPayable
<1>4. \A c \in batch' : BatchHolds(c)'
  BY DEF OnlineInv, BatchHolds
<1> QED
  BY <1>1, <1>2, <1>3, <1>4 DEF OnlineInv

LEMMA DeferOnline ==
  ASSUME OnlineInv, NEW v \in Verifiers, Defer(v)
  PROVE  OnlineInv'
<1>1. PICK j, x : j = job[v] /\ x = j.x
  OBVIOUS
<1>2. /\ j # Idle /\ JobHolds(j) /\ x \in Online /\ IntentHolds(x) /\ intent[x] \in IntentRows
      /\ End(v) /\ UNCHANGED <<feeVars, prov, clock, batch>>
  BY <1>1 DEF Defer, Decides, OnlineInv, JobHolds, Typed
<1>3. CASE j.advance
  <2>1. PICK new : new = [intent[x] EXCEPT !.status = "PENDING"]
    OBVIOUS
  <2>2. new = [intent[x] EXCEPT !.status = "PENDING", !.parked = intent[x].parked]
    BY <1>2, <2>1 DEF IntentRows
  <2>3. Update(x, Unsettled, new)
    BY <1>1, <1>3, <2>1 DEF Defer
  <2>4. intent[x].parked \in BOOLEAN /\ "PENDING" \in Unsettled /\ "PENDING" \notin Closed
    BY <1>2 DEF IntentRows, Unsettled, Open, Closed
  <2>5. intent[x].parked => prov[x] \in {"paid", "other"}
    BY <1>2 DEF IntentHolds
  <2> QED
    BY <1>2, <2>2, <2>3, <2>4, <2>5, VerdictWritten DEF End
<1>4. CASE ~j.advance
  <2>1. UNCHANGED intent
    <3>1. Update(x, Unsettled, intent[x])
      BY <1>1, <1>4 DEF Defer
    <3>2. intent' = [intent EXCEPT ![x] = intent[x]] \/ UNCHANGED intent
      BY <3>1 DEF Update, Write, rowVars
    <3> QED
      BY <1>2, <3>2 DEF OnlineInv, Typed
  <2> QED
    BY <1>2, <2>1, VerificationEnds
<1> QED
  BY <1>3, <1>4

LEMMA CloseOnline ==
  ASSUME OnlineInv, NEW v \in Verifiers, Close(v)
  PROVE  OnlineInv'
<1>0. PICK verdict \in Closed :
        /\ Decides(v, verdict)
        /\ Update(job[v].x, Open, [intent[job[v].x] EXCEPT !.status = verdict])
        /\ End(v) /\ UNCHANGED <<feeVars, prov, clock, batch>>
  BY DEF Close
<1>1. PICK j, x, new :
        /\ j = job[v] /\ x = j.x /\ j # Idle /\ j.stage = verdict
        /\ new = [intent[x] EXCEPT !.status = verdict] /\ Update(x, Open, new)
        /\ End(v) /\ UNCHANGED <<feeVars, prov, clock, batch>>
  BY <1>0 DEF Decides
<1>2. JobHolds(j) /\ x \in Online /\ IntentHolds(x) /\ intent[x] \in IntentRows
  BY <1>1 DEF OnlineInv, JobHolds, Typed
<1>3. NotPayable(x)
  BY <1>1, <1>2 DEF JobHolds
<1>4. intent[x].parked = FALSE
  BY <1>2, <1>3 DEF IntentHolds, NotPayable, IntentRows
<1>5. new = [intent[x] EXCEPT !.status = verdict, !.parked = FALSE]
  BY <1>1, <1>2, <1>4 DEF IntentRows
<1>6. verdict \in Unsettled /\ Open \subseteq Unsettled
  BY DEF Unsettled
<1> QED
  BY <1>1, <1>2, <1>3, <1>5, <1>6, VerdictWritten, ZenonT(60) DEF End

\* The verification parks an intent that money came for.
LEMMA ParkOnline ==
  ASSUME OnlineInv, NEW v \in Verifiers, NEW x \in Online, Park(x), End(v),
         prov[x] \in {"paid", "other"}, UNCHANGED <<feeVars, prov, clock, batch>>
  PROVE  OnlineInv'
<1>1. PICK new : new = [intent[x] EXCEPT !.status = "PENDING", !.parked = TRUE]
  OBVIOUS
<1>2. Update(x, Unsettled, new)
  BY <1>1 DEF Park
<1>3. "PENDING" \in Unsettled /\ "PENDING" \notin Closed
  BY DEF Unsettled, Open, Closed
<1> QED
  BY <1>1, <1>2, <1>3, VerdictWritten DEF End

LEMMA MismatchOnline ==
  ASSUME OnlineInv, NEW v \in Verifiers, Mismatch(v)
  PROVE  OnlineInv'
<1>1. PICK j, x : /\ j = job[v] /\ x = j.x /\ j # Idle /\ j.stage = "exception" /\ Park(x)
                  /\ End(v) /\ UNCHANGED <<feeVars, prov, clock, batch>>
  BY DEF Mismatch, Decides
<1>2. x \in Online /\ prov[x] = "other"
  BY <1>1 DEF OnlineInv, JobHolds
<1> QED
  BY <1>1, <1>2, ParkOnline

\* The payment of another verification: its transaction settled the intent.
LEMMA AlreadyPaidOnline ==
  ASSUME OnlineInv, NEW v \in Verifiers, AlreadyPaid(v)
  PROVE  OnlineInv'
<1>1. PICK j, x : /\ j = job[v] /\ x = j.x /\ j # Idle /\ pay[x].status # "none"
                  /\ Update(x, Unsettled, [intent[x] EXCEPT !.status = "SUCCEEDED"])
                  /\ End(v) /\ UNCHANGED <<feeVars, prov, clock, batch>>
  BY DEF AlreadyPaid, Decides
<1>2. x \in Online /\ intent[x].status = "SUCCEEDED"
  BY <1>1 DEF OnlineInv, JobHolds, IntentHolds
<1>3. UNCHANGED intent
  BY <1>1, <1>2 DEF Update, Unsettled, Open, Closed, rowVars
<1> QED
  BY <1>1, <1>3, VerificationEnds

LEMMA NotYetPaidOnline ==
  ASSUME OnlineInv, NEW v \in Verifiers, NotYetPaid(v)
  PROVE  OnlineInv'
<1>1. PICK j, x : /\ j = job[v] /\ x = j.x /\ j # Idle /\ j.stage = "settle"
                  /\ job' = [job EXCEPT ![v] = IF active THEN [x |-> x, stage |-> "room"] ELSE Idle]
                  /\ UNCHANGED <<feeVars, intentVars, batch>>
  <2>1. v \in DOMAIN job
    BY DEF OnlineInv, Typed
  <2> QED
    BY <2>1 DEF NotYetPaid, Decides
<1>2. PICK next : next = IF active THEN [x |-> x, stage |-> "room"] ELSE Idle
  OBVIOUS
<1>3. JobHolds([x |-> x, stage |-> "room"])
  BY <1>1 DEF OnlineInv, JobHolds, Closed
<1>4. \A c \in batch' : BatchHolds(c)
  BY <1>1 DEF OnlineInv
<1> QED
  BY <1>1, <1>2, <1>3, <1>4, OneJob

LEMMA ReadRoomOnline ==
  ASSUME OnlineInv, NEW v \in Verifiers, ReadRoom(v)
  PROVE  OnlineInv'
<1>1. PICK j, x : /\ j = job[v] /\ x = j.x /\ j # Idle /\ j.stage = "room"
                  /\ UNCHANGED <<feeVars, prov, clock, active, crowded, batch>>
  BY DEF ReadRoom, Decides
<1>2. JobHolds(j) /\ x \in Online /\ prov[x] = "paid"
  BY <1>1 DEF OnlineInv, JobHolds
<1>3. CASE HasRoom(x)
  <2>1. PICK paid, total :
          /\ job' = [job EXCEPT ![v] = [x |-> x, stage |-> "tx", paid |-> paid, total |-> total]]
          /\ UNCHANGED rowVars
    BY <1>1, <1>3 DEF ReadRoom
  <2>2. JobHolds([x |-> x, stage |-> "tx", paid |-> paid, total |-> total])
    BY <1>1, <1>2 DEF JobHolds, Closed
  <2>3. \A c \in batch' : BatchHolds(c)
    BY <1>1 DEF OnlineInv
  <2> QED
    BY <1>1, <2>1, <2>2, <2>3, OneJob DEF intentVars, rowVars
<1>4. CASE ~HasRoom(x)
  <2>1. Park(x) /\ End(v)
    BY <1>1, <1>4 DEF ReadRoom
  <2> QED
    BY <1>1, <1>2, <2>1, ParkOnline
<1> QED
  BY <1>3, <1>4

-----------------------------------------------------------------------------
(***************************************************************************)
(* The settlement                                                          *)
(***************************************************************************)
LEMMA SettleFees ==
  ASSUME OnlineInv, NEW x \in Online, NEW i \in Invoices, NEW amount \in Nat \ {0}, NEW status,
         pay[x].status = "none",
         GuardInvoices(<<Row(i, amount, "collect")>>),
         pay' = [pay EXCEPT ![x] = [status |-> "SUCCESS", amount |-> amount, refunded |-> 0]],
         alloc' = [alloc EXCEPT ![x] = <<Row(i, amount, "collect")>>],
         status \in InvoiceStatuses, inv' = [inv EXCEPT ![i].status = status],
         UNCHANGED op
  PROVE  FeeInv({})' /\ \A y \in Payments : y # x => pay'[y] = pay[y]
<1>0. x \in Payments
  BY FeeAssumption
<1>1. PICK row : row = Row(i, amount, "collect")
  OBVIOUS
<1>2. row \in RowsOf({}) /\ row.to = i /\ row.amount = amount
  BY <1>1 DEF Row, RowsOf, Targets
<1>3. PICK rows : rows = <<row>>
  OBVIOUS
<1>4. /\ rows \in Seq(RowsOf({})) /\ SumOf(rows) = amount
      /\ \A t : SumTo(rows, t) = IF i = t THEN amount ELSE 0
  BY <1>2, <1>3, SingleRow
<1>5. /\ alloc \in [Payments -> Seq(RowsOf({}))] /\ pay \in [Payments -> PaymentRows]
      /\ inv \in [Invoices -> InvoiceRows]
      /\ \A p \in Payments : Balanced(p)
      /\ alloc' = [alloc EXCEPT ![x] = rows]
  BY <1>1, <1>3 DEF OnlineInv, FeeInv, FeeTyped
<1>6. /\ alloc' \in [Payments -> Seq(RowsOf({}))]
      /\ \A t : Credit(t) \in Int /\ Credit(t)' = Credit(t) + (SumTo(rows, t) - Net(x, t))
      /\ \A t : /\ Net(x, t)' = SumTo(rows, t) /\ Net(x, t) \in Int
                /\ \A q \in Payments \ {x} : Net(q, t)' = Net(q, t)
      /\ Kept(x)' = SumOf(rows) /\ \A q \in Payments \ {x} : Kept(q)' = Kept(q)
  <2>1. PICK G : G = {}
    OBVIOUS
  <2>2. alloc \in [Payments -> Seq(RowsOf(G))] /\ rows \in Seq(RowsOf(G))
    BY <1>4, <1>5, <2>1
  <2>3. alloc' = [alloc EXCEPT ![x] = rows]
    BY <1>5
  <2>4. /\ alloc' \in [Payments -> Seq(RowsOf(G))]
        /\ \A t : /\ Credit(t) \in Int
                 /\ Credit(t)' = Credit(t) + (SumTo(rows, t) - Net(x, t))
        /\ \A t : /\ Net(x, t)' = SumTo(rows, t) /\ Net(x, t) \in Int
                 /\ \A q \in Payments \ {x} : Net(q, t)' = Net(q, t)
        /\ Kept(x)' = SumOf(rows) /\ Kept(x) \in Int
        /\ \A q \in Payments \ {x} : Kept(q)' = Kept(q)
    BY ONLY <1>0, <2>2, <2>3, RowsWritten
  <2> QED
    BY <2>1, <2>4
<1>7. \A t : Net(x, t) = 0
  BY <1>0, <1>5, SumToEmpty DEF Balanced, Net
<1>8. Credit(i) + amount <= inv[i].total
  <2>1. /\ Len(rows) = 1 /\ rows[1].to = i /\ rows[1].amount = amount
        /\ GuardInvoices(rows)
    BY <1>1, <1>2, <1>3
  <2> QED
    BY <2>1 DEF GuardInvoices
<1>9. /\ inv' \in [Invoices -> InvoiceRows]
      /\ \A t \in Invoices : inv'[t].total = inv[t].total
  BY <1>5 DEF InvoiceRows
<1>10. /\ pay' \in [Payments -> PaymentRows]
       /\ pay'[x].status = "SUCCESS" /\ pay'[x].amount = amount /\ pay'[x].refunded = 0
       /\ \A q \in Payments : q # x => pay'[q] = pay[q]
  BY <1>0, <1>5 DEF PaymentRows
<1>11. FeeTyped({})'
  BY <1>6, <1>9, <1>10 DEF OnlineInv, FeeInv, FeeTyped
<1>12. ASSUME NEW q \in Payments PROVE Balanced(q)'
  <2>1. CASE q = x
    BY <1>4, <1>6, <1>10, <2>1 DEF Balanced
  <2>2. CASE q # x
    <3>1. /\ pay'[q] = pay[q] /\ alloc'[q] = alloc[q] /\ Kept(q)' = Kept(q)
          /\ \A t : Net(q, t)' = Net(q, t)
      BY <1>5, <1>6, <1>10, <2>2
    <3> QED
      BY <1>5, <3>1 DEF Balanced
  <2> QED
    BY <2>1, <2>2
<1>13. ASSUME NEW t \in Invoices PROVE Credit(t)' \in 0..inv'[t].total
  <2>1. Credit(t) \in 0..inv[t].total /\ inv[t].total \in Nat
    BY <1>5 DEF OnlineInv, FeeInv, InvoicesNotOverpaid, InvoiceRows
  <2>2. Credit(t)' = Credit(t) + (IF i = t THEN amount ELSE 0)
    BY <1>4, <1>6, <1>7
  <2> QED
    BY <1>8, <1>9, <2>1, <2>2
<1> QED
  BY <1>10, <1>11, <1>12, <1>13 DEF FeeInv, InvoicesNotOverpaid

LEMMA SettleOnline ==
  ASSUME OnlineInv, NEW v \in Verifiers, Settle(v)
  PROVE  OnlineInv'
<1>1. PICK j, x, i, amount : j = job[v] /\ x = j.x /\ i = intent[x].invoice /\ amount = intent[x].amount
  OBVIOUS
<1>2. /\ j # Idle /\ j.stage = "tx" /\ pay[x].status = "none"
      /\ GuardInvoices(<<Row(i, amount, "collect")>>)
      /\ pay' = [pay EXCEPT ![x] = [status |-> "SUCCESS", amount |-> amount, refunded |-> 0]]
      /\ alloc' = [alloc EXCEPT ![x] = <<Row(i, amount, "collect")>>]
      /\ inv' = [inv EXCEPT ![i].status = CollectedStatus(j.paid + amount, j.total)]
      /\ intent' = [intent EXCEPT ![x] =
                      [intent[x] EXCEPT !.status = "SUCCEEDED", !.ref = TRUE, !.parked = FALSE]]
      /\ End(v) /\ UNCHANGED <<op, prov, clock, batch>>
  BY <1>1 DEF Settle, Decides, AllocationGuard, Write
<1>3. /\ x \in Online /\ prov[x] = "paid" /\ IntentHolds(x) /\ intent[x].status # "none"
      /\ intent[x] \in IntentRows
  BY <1>1, <1>2 DEF OnlineInv, JobHolds, Typed
<1>4. i \in Invoices /\ amount \in Nat \ {0}
  BY <1>1, <1>3 DEF IntentHolds, IntentRows
<1>5. FeeInv({})' /\ \A y \in Payments : y # x => pay'[y] = pay[y]
  BY <1>2, <1>3, <1>4, SettleFees, StatusIs
<1>6. pay'[x].status = "SUCCESS"
  <2>1. x \in DOMAIN pay
    BY <1>3, FeeAssumption DEF OnlineInv, FeeInv, FeeTyped
  <2> QED
    BY <1>2, <2>1
<1>7. PICK new : new = [intent[x] EXCEPT !.status = "SUCCEEDED", !.ref = TRUE, !.parked = FALSE]
  OBVIOUS
<1>8. /\ new \in IntentRows /\ new.status = "SUCCEEDED" /\ new.parked = FALSE
      /\ new.started = intent[x].started /\ new.invoice = intent[x].invoice
      /\ new.amount = intent[x].amount
  BY <1>3, <1>7 DEF IntentRows
<1>9. intent' = [intent EXCEPT ![x] = new]
  BY <1>2, <1>3, <1>7 DEF OnlineInv, Typed
<1>10. /\ intent' \in [Online -> IntentRows] /\ intent'[x] = new
       /\ \A y \in Online : y # x => intent'[y] = intent[y]
  BY <1>3, <1>8, <1>9, IntentWritten
<1>11. Typed'
  BY <1>2, <1>10 DEF OnlineInv, Typed, End
<1>12. ASSUME NEW y \in Online PROVE IntentHolds(y)' /\ Forwards(y)
  <2>1. CASE y = x
    <3>1. IntentHolds(x)'
      BY <1>1, <1>2, <1>3, <1>4, <1>6, <1>8, <1>10 DEF IntentHolds, Closed
    <3>2. Forwards(x)
      BY <1>2, <1>3, <1>8, <1>10 DEF Forwards, NotPayable
    <3> QED
      BY <2>1, <3>1, <3>2
  <2>2. CASE y # x
    <3>1. intent'[y] = intent[y] /\ pay'[y] = pay[y] /\ IntentHolds(y)
      BY <1>5, <1>10, <2>2, FeeAssumption DEF OnlineInv
    <3> QED
      BY <1>2, <3>1 DEF IntentHolds, Forwards, NotPayable
  <2> QED
    BY <2>1, <2>2
<1>13. ASSUME NEW u \in Verifiers, job'[u] # Idle PROVE JobHolds(job[u])'
  <2>1. PICK k : k = job[u]
    OBVIOUS
  <2>2. job'[u] = k /\ JobHolds(k)
    BY <1>2, <1>13, <2>1 DEF End, OnlineInv, Typed
  <2>3. JobHolds(k)'
    BY <1>12, <2>2, JobForwards
  <2> QED
    BY <2>2, <2>3
<1>14. ASSUME NEW c \in batch' PROVE BatchHolds(c)'
  BY <1>2, <1>12, BatchForwards DEF OnlineInv
<1> QED
  BY <1>5, <1>11, <1>12, <1>13, <1>14 DEF OnlineInv

-----------------------------------------------------------------------------
LEMMA VerifyOnline ==
  ASSUME OnlineInv, NEW v \in Verifiers, Verify(v)
  PROVE  OnlineInv'
<1>1. CASE Abandon(v)
  BY <1>1, VerificationEnds DEF Abandon, intentVars
<1> QED
  BY <1>1, HearsOnline, DeferOnline, CloseOnline, MismatchOnline, AlreadyPaidOnline,
     NotYetPaidOnline, ReadRoomOnline, SettleOnline
  DEF Verify, Concludes

LEMMA NextOnline == OnlineInv /\ [Next]_vars => OnlineInv'
<1> SUFFICES ASSUME OnlineInv, [Next]_vars PROVE OnlineInv'
  OBVIOUS
<1>1. CASE \E w \in Workers : FeeStep(w) /\ UNCHANGED <<intentVars, batch, job>>
  BY <1>1, FeeStepOnline
<1>2. CASE CreateOnlinePaymentIntent
  BY <1>2, CreateOnline
<1>3. CASE InitiationReady \/ InitiationRefused \/ InitiationUncertain
  BY <1>3, InitiationOnline
<1>4. CASE \/ CustomerPays \/ ProviderFails \/ SetTenantActive \/ OthersChange
           \/ \E x \in Online : TimePasses(x) \/ Rests(x)
  BY <1>4, EnvironmentOnline
<1>5. CASE \/ \E v \in Callers : Callback(v) \/ ClientConfirm(v)
           \/ StartSweep \/ SweepDies \/ \E x \in Online : Reconcile(x)
  BY <1>5, CallersOnline, StartSweepOnline, SweepDiesOnline, ReconcileOnline
<1>6. CASE \E v \in Verifiers : Verify(v)
  BY <1>6, VerifyOnline
<1>7. CASE UNCHANGED vars
  <2>1. FeeInv({})'
    BY <1>7, FeeUnchanged DEF vars, OnlineInv, FeeInv, FeeTyped, Requested
  <2>2. Typed' /\ \A x \in Online : IntentHolds(x)'
    BY <1>7 DEF vars, OnlineInv, Typed, IntentHolds, NotPayable
  <2>3. \A v \in Verifiers : job'[v] # Idle => JobHolds(job[v])'
    BY <1>7 DEF vars, OnlineInv, JobHolds, NotPayable
  <2>4. \A c \in batch' : BatchHolds(c)'
    BY <1>7 DEF vars, OnlineInv, BatchHolds
  <2> QED
    BY <2>1, <2>2, <2>3, <2>4 DEF OnlineInv
<1> QED
  BY <1>1, <1>2, <1>3, <1>4, <1>5, <1>6, <1>7 DEF Next

THEOREM OnlineSafe == Spec => []OnlineInv
<1> QED
  BY OnlineInit, NextOnline, PTL DEF Spec

\* Records keep their shape, and verifications and sweeps know intents that
\* exist, none of them past an expiry that is still to come.
THEOREM OnlineTyped == Spec => []TypeOK
<1>1. OnlineInv => TypeOK
  <2> SUFFICES ASSUME OnlineInv PROVE TypeOK
    OBVIOUS
  <2>1. \A i \in Invoices : inv[i].status \in InvoiceStatuses /\ inv[i].total \in Nat
    BY DEF OnlineInv, FeeInv, FeeTyped, InvoiceRows
  <2>2. ASSUME NEW x \in Online
        PROVE  /\ intent[x].status \in Unsettled \cup {"none", "SUCCEEDED"}
               /\ intent[x].status # "none" => intent[x].invoice \in Invoices /\ intent[x].amount > 0
               /\ intent[x].parked => intent[x].status = "PENDING"
               /\ clock[x] \in {Fresh, Stale, Expired}
    BY DEF OnlineInv, Typed, IntentRows, IntentHolds
  <2>3. \A v \in Verifiers : job[v] # Idle => intent[job[v].x].status # "none"
    BY DEF OnlineInv, JobHolds
  <2>4. \A c \in batch : intent[c.x].status # "none" /\ (c.age = Expired => clock[c.x] = Expired)
    BY DEF OnlineInv, BatchHolds
  <2> QED
    BY <2>1, <2>2, <2>3, <2>4 DEF TypeOK
<1> QED
  BY <1>1, OnlineSafe, PTL

\* verifyAndSettleOnlinePaymentIntent credits only what the provider has
\* confirmed to the intent's amount, whatever callbacks claim.
THEOREM OnlyPaidMoneyIsCredited == Spec => []CreditedMoneyWasPaid
<1>1. OnlineInv => CreditedMoneyWasPaid
  BY DEF OnlineInv, IntentHolds, CreditedMoneyWasPaid
<1> QED
  BY <1>1, OnlineSafe, PTL

\* An intent has succeeded exactly when its payment exists, though overlapping
\* verifications write its status from what they read before.
THEOREM AlwaysSettledIffPaid == Spec => []SettledIffPaid
<1>1. OnlineInv => SettledIffPaid
  BY DEF OnlineInv, IntentHolds, SettledIffPaid
<1> QED
  BY <1>1, OnlineSafe, PTL

\* No money is behind an intent that closeOnlinePaymentIntent has closed.
THEOREM NoMoneyBehindClosed == Spec => []ClosedWasNotPaid
<1>1. OnlineInv => ClosedWasNotPaid
  BY DEF OnlineInv, IntentHolds, NotPayable, ClosedWasNotPaid
<1> QED
  BY <1>1, OnlineSafe, PTL

\* Settlements and cashiers together never credit an invoice with more than
\* its total, though each reads the room before its transaction.
THEOREM SettlementsNeverOverpay == Spec => []InvoicesNotOverpaid
<1>1. OnlineInv => InvoicesNotOverpaid
  BY DEF OnlineInv, FeeInv
<1> QED
  BY <1>1, OnlineSafe, PTL

===============================================================================
