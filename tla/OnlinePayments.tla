--------------------------- MODULE OnlinePayments ---------------------------
(***************************************************************************)
(* Online payment intents and their settlement (finance.service.ts:        *)
(* createOnlinePaymentIntent, handleOnlinePaymentWebhook,                  *)
(* verifyOnlinePaymentIntent, reconcileStaleOnlinePaymentIntents,          *)
(* verifyAndSettleOnlinePaymentIntent), next to the cashiers of            *)
(* FeeAllocations who credit the same invoices.                            *)
(*                                                                         *)
(* Callbacks may be lost, repeated or late: a callback may come at any     *)
(* time, with any hint.  A verification reads the intent, asks the         *)
(* provider and acts on the answer in steps, so that verifications of one  *)
(* intent overlap.                                                         *)
(***************************************************************************)
EXTENDS FeeAllocations

CONSTANTS
  Callers,    \* verifications by callback or by client that run at a time
  Sweep       \* the reconciler, a verification by schedule

ASSUME Sweep \notin Callers

VARIABLES
  intent,     \* intent[x]: a row of OnlinePaymentIntent
  prov,       \* prov[x]: the payment as the provider knows it
  clock,      \* clock[x]: how much time has passed since the intent
  active,     \* the school is not suspended
  rested,     \* rested[x]: its updatedAt is ten minutes old
  crowded,    \* crowded[x]: a hundred open intents have an older updatedAt
  batch,      \* the intents that the sweep has taken and not yet verified
  job         \* job[v]: the verification v and what it has read

rowVars == <<intent, rested>>
intentVars == <<intent, rested, prov, clock, active, crowded>>
vars == <<inv, pay, alloc, op, intent, prov, clock, active, rested, crowded, batch, job>>

-----------------------------------------------------------------------------
Verifiers == Callers \cup {Sweep}
Open == {"CREATED", "READY", "PENDING"}
Closed == {"FAILED", "EXPIRED"}

\* Ages of an intent: fresh, ten minutes old, and past its expiry.
Fresh == 0
Stale == 1
Expired == 2

NoIntent == [status |-> "none", invoice |-> Advance, amount |-> 0,
             ref |-> FALSE, parked |-> FALSE, started |-> FALSE]

\* The invoice column of a payment: only a payment that was collected on one
\* invoice, with nothing left over, names it.
InvoiceOf(p) ==
  LET first == SelectSeq(alloc[p], LAMBDA row : row.group = "collect")
  IN  IF Len(first) = 1 THEN first[1].to ELSE Advance

\* sumNetPaidAmount of the payments that name the invoice.
NetPaid(i) ==
  MapThenSumSet(LAMBDA p : pay[p].amount - pay[p].refunded,
                {p \in Payments : pay[p].status = "SUCCESS" /\ InvoiceOf(p) = i})

\* Every write of a row renews its updatedAt.
Write(x, row) ==
  /\ intent' = [intent EXCEPT ![x] = row]
  /\ rested' = [rested EXCEPT ![x] = FALSE]

-----------------------------------------------------------------------------
(***************************************************************************)
(* createOnlinePaymentIntent writes the row, asks the provider to start a  *)
(* checkout and writes the answer.  After a timeout the provider may have  *)
(* started one or not.  The call ends within 15 seconds, before the intent *)
(* is stale.                                                               *)
(***************************************************************************)
CreateOnlinePaymentIntent ==
  \E x \in Online, i \in Invoices : \E amount \in 1..(inv[i].total - NetPaid(i)) :
    /\ intent[x].status = "none"
    /\ Write(x, [NoIntent EXCEPT !.status = "CREATED", !.invoice = i, !.amount = amount])
    /\ UNCHANGED <<feeVars, prov, clock, active, crowded, batch, job>>

Starting(x) == intent[x].status # "none" /\ ~intent[x].started

InitiationReady ==
  \E x \in Online :
    /\ Starting(x)
    /\ Write(x, [intent[x] EXCEPT !.status = "READY", !.ref = TRUE, !.started = TRUE])
    /\ prov' = [prov EXCEPT ![x] = "pending"]
    /\ UNCHANGED <<feeVars, clock, active, crowded, batch, job>>

InitiationRefused ==
  \E x \in Online :
    /\ Starting(x)
    /\ Write(x, [intent[x] EXCEPT !.status = "FAILED", !.started = TRUE])
    /\ UNCHANGED <<feeVars, prov, clock, active, crowded, batch, job>>

InitiationUncertain ==
  \E x \in Online, p \in {"none", "pending"} :
    /\ Starting(x)
    /\ Write(x, [intent[x] EXCEPT !.started = TRUE])
    /\ prov' = [prov EXCEPT ![x] = p]
    /\ UNCHANGED <<feeVars, clock, active, crowded, batch, job>>

-----------------------------------------------------------------------------
(***************************************************************************)
(* The environment.  A provider takes no money after the expiry of its     *)
(* checkout, and its last word is final.  "other" is money that does not   *)
(* match the intent.                                                       *)
(***************************************************************************)
CustomerPays ==
  \E x \in Online, paid \in {"paid", "other"} :
    /\ prov[x] = "pending" /\ clock[x] < Expired
    /\ prov' = [prov EXCEPT ![x] = paid]
    /\ UNCHANGED <<feeVars, rowVars, clock, active, crowded, batch, job>>

ProviderFails ==
  \E x \in Online :
    /\ prov[x] = "pending"
    /\ prov' = [prov EXCEPT ![x] = "failed"]
    /\ UNCHANGED <<feeVars, rowVars, clock, active, crowded, batch, job>>

TimePasses(x) ==
  /\ intent[x].started /\ clock[x] < Expired
  /\ clock' = [clock EXCEPT ![x] = @ + 1]
  /\ UNCHANGED <<feeVars, rowVars, prov, active, crowded, batch, job>>

\* Ten minutes after the last write.
Rests(x) ==
  /\ intent[x].status \in Open /\ ~rested[x] /\ clock[x] >= Stale
  /\ rested' = [rested EXCEPT ![x] = TRUE]
  /\ UNCHANGED <<feeVars, intent, prov, clock, active, crowded, batch, job>>

\* Other intents, those of other schools among them, come to stand before it
\* in the order of updatedAt, or no longer do.
OthersChange ==
  \E x \in Online :
    /\ crowded' = [crowded EXCEPT ![x] = ~@]
    /\ UNCHANGED <<feeVars, rowVars, prov, clock, active, batch, job>>

SetTenantActive ==
  /\ active' = ~active
  /\ UNCHANGED <<feeVars, rowVars, prov, clock, crowded, batch, job>>

-----------------------------------------------------------------------------
(***************************************************************************)
(* verifyAndSettleOnlinePaymentIntent up to the provider's answer.  What   *)
(* the answer will mean depends on the intent and on the time, and both    *)
(* are taken before the provider is asked; the sweep's time is that of its *)
(* start.                                                                  *)
(***************************************************************************)
\* Seeded fault: an intent is given up before its initiation can have ended.
InitiationLostAtOnce(x, age) == intent[x].status = "CREATED" /\ ~intent[x].ref
InitiationLost(x, age) == intent[x].status = "CREATED" /\ ~intent[x].ref /\ age >= Stale
PastExpiry(age) == age = Expired

Start(v, x, hint, age) ==
  /\ intent[x].status \notin {"none", "SUCCEEDED"}
  /\ job' = [job EXCEPT ![v] =
               [x |-> x, stage |-> "ask", hint |-> hint,
                early |-> intent[x].status \in {"CREATED", "READY"},
                lost |-> InitiationLost(x, age), past |-> PastExpiry(age)]]
  /\ UNCHANGED <<feeVars, intentVars>>

\* A signed callback, with or without the claim that the payment goes well.
Callback(v) ==
  \E x \in Online, hint \in BOOLEAN :
    job[v] = Idle /\ Start(v, x, hint, clock[x]) /\ UNCHANGED batch

ClientConfirm(v) ==
  \E x \in Online :
    /\ job[v] = Idle /\ intent[x].status \in Open
    /\ Start(v, x, FALSE, clock[x]) /\ UNCHANGED batch

-----------------------------------------------------------------------------
(***************************************************************************)
(* reconcileStaleOnlinePaymentIntents: a sweep takes the open intents that *)
(* were not written for ten minutes, the oldest write first and not more   *)
(* than a hundred, and verifies one after the other.                       *)
(***************************************************************************)
\* Seeded fault: intents without a checkout are left out.
CandidateWithCheckout(x) ==
  intent[x].status \in {"READY", "PENDING"} /\ ~intent[x].parked /\ rested[x] /\ active

\* A parked intent waits for a person.
Candidate(x) == intent[x].status \in Open /\ ~intent[x].parked /\ rested[x] /\ active

StartSweep ==
  LET taken == {x \in Online : Candidate(x) /\ ~crowded[x]} IN
  /\ job[Sweep] = Idle /\ batch = {} /\ taken # {}
  /\ batch' = {[x |-> x, age |-> clock[x]] : x \in taken}
  /\ UNCHANGED <<feeVars, intentVars, job>>

\* An intent that is settled by now is left alone.
Reconcile(x) ==
  \E c \in batch :
    /\ job[Sweep] = Idle /\ c.x = x
    /\ batch' = batch \ {c}
    /\ \/ Start(Sweep, x, FALSE, c.age)
       \/ intent[x].status = "SUCCEEDED" /\ UNCHANGED <<feeVars, intentVars, job>>

\* The process of the sweep dies.
SweepDies ==
  /\ batch # {}
  /\ batch' = {} /\ job' = [job EXCEPT ![Sweep] = Idle]
  /\ UNCHANGED <<feeVars, intentVars>>

-----------------------------------------------------------------------------
(***************************************************************************)
(* The answer, and the verdicts that settle nothing                        *)
(***************************************************************************)
\* Seeded fault: the claim of a callback is taken for the provider's answer.
VerdictOfCallback(j, answer) == IF j.hint \/ answer = "paid" THEN "settle" ELSE "defer"
Verdict(j, answer) ==
  CASE answer = "none" /\ j.lost -> "FAILED"
    [] answer = "none" /\ ~j.lost /\ j.past -> "EXPIRED"
    [] answer = "failed" -> "FAILED"
    [] answer = "pending" /\ j.past -> "EXPIRED"
    [] answer = "other" -> "exception"
    [] answer = "paid" -> "settle"
    [] OTHER -> "defer"

\* An open intent becomes PENDING when somebody saw the payment under way.
AwaitsConfirmation(j, answer) == j.early /\ (j.hint \/ answer = "pending")

Hears(v, answer) ==
  /\ job[v] # Idle /\ job[v].stage = "ask"
  /\ job' = [job EXCEPT ![v] =
               [x |-> @.x, stage |-> Verdict(@, answer),
                advance |-> Verdict(@, answer) = "defer" /\ AwaitsConfirmation(@, answer)]]
  /\ UNCHANGED <<feeVars, intentVars, batch>>

\* The provider's own answer, or none in time.
Answered(v) == job[v] # Idle /\ Hears(v, prov[job[v].x])
Unavailable(v) == Hears(v, "unavailable")

Decides(v, verdict) == job[v] # Idle /\ job[v].stage = verdict

\* The update of a row where its status is still one of these.
\* Seeded fault: the status is not compared.
UpdateAnyway(x, where, new) == Write(x, new)
Update(x, where, new) ==
  \/ intent[x].status \in where /\ Write(x, new)
  \/ intent[x].status \notin where /\ UNCHANGED rowVars
Unsettled == Open \cup Closed

End(v) == job' = [job EXCEPT ![v] = Idle]

\* deferOnlinePaymentVerification counts the attempt in any case.
Defer(v) ==
  LET j == job[v] IN
  /\ Decides(v, "defer")
  /\ Update(j.x, Unsettled, IF j.advance THEN [intent[j.x] EXCEPT !.status = "PENDING"]
                                        ELSE intent[j.x])
  /\ End(v)
  /\ UNCHANGED <<feeVars, prov, clock, active, crowded, batch>>

\* closeOnlinePaymentIntent
Close(v) ==
  \E verdict \in Closed :
    /\ Decides(v, verdict)
    /\ Update(job[v].x, Open, [intent[job[v].x] EXCEPT !.status = verdict])
    /\ End(v)
    /\ UNCHANGED <<feeVars, prov, clock, active, crowded, batch>>

\* recordOnlinePaymentException
\* Seeded fault: the status is left as it is.
ParkInPlace(x) == Update(x, Unsettled, [intent[x] EXCEPT !.parked = TRUE])
Park(x) == Update(x, Unsettled, [intent[x] EXCEPT !.status = "PENDING", !.parked = TRUE])

Mismatch(v) ==
  /\ Decides(v, "exception")
  /\ Park(job[v].x)
  /\ End(v)
  /\ UNCHANGED <<feeVars, prov, clock, active, crowded, batch>>

-----------------------------------------------------------------------------
(***************************************************************************)
(* settleVerifiedOnlinePaymentIntent: the payment of another verification, *)
(* the state of the school, the room on the invoice, and the transaction.  *)
(***************************************************************************)
AlreadyPaid(v) ==
  LET x == job[v].x IN
  /\ Decides(v, "settle")
  /\ pay[x].status # "none"
  /\ Update(x, Unsettled, [intent[x] EXCEPT !.status = "SUCCEEDED"])
  /\ End(v)
  /\ UNCHANGED <<feeVars, prov, clock, active, crowded, batch>>

NotYetPaid(v) ==
  /\ Decides(v, "settle")
  /\ pay[job[v].x].status = "none"
  /\ job' = [job EXCEPT ![v] = IF active THEN [x |-> @.x, stage |-> "room"] ELSE Idle]
  /\ UNCHANGED <<feeVars, intentVars, batch>>

HasRoom(x) == intent[x].amount <= inv[intent[x].invoice].total - NetPaid(intent[x].invoice)

ReadRoom(v) ==
  LET x == job[v].x
      i == intent[x].invoice IN
  /\ Decides(v, "room")
  /\ IF HasRoom(x)
     THEN /\ job' = [job EXCEPT ![v] = [x |-> x, stage |-> "tx", paid |-> NetPaid(i),
                                         total |-> inv[i].total]]
          /\ UNCHANGED rowVars
     ELSE Park(x) /\ End(v)
  /\ UNCHANGED <<feeVars, prov, clock, active, crowded, batch>>

\* The payment with its key and its row, the invoice from what was read
\* before, and the intent.  The trigger on the row may refuse all of it.
Settle(v) ==
  LET j == job[v]
      x == j.x
      i == intent[x].invoice
      rows == <<Row(i, intent[x].amount, "collect")>> IN
  /\ Decides(v, "tx")
  /\ pay[x].status = "none"
  /\ AllocationGuard(x, intent[x].amount, rows)
  /\ pay' = [pay EXCEPT ![x] =
               [status |-> "SUCCESS", amount |-> intent[x].amount, refunded |-> 0]]
  /\ alloc' = [alloc EXCEPT ![x] = rows]
  /\ inv' = [inv EXCEPT ![i].status = CollectedStatus(j.paid + intent[x].amount, j.total)]
  /\ Write(x, [intent[x] EXCEPT !.status = "SUCCEEDED", !.ref = TRUE, !.parked = FALSE])
  /\ End(v)
  /\ UNCHANGED <<op, prov, clock, active, crowded, batch>>

\* The payment key is taken, the trigger refuses the row, or the process dies:
\* nothing of the verification is kept.
Abandon(v) ==
  /\ job[v] # Idle
  /\ End(v)
  /\ UNCHANGED <<feeVars, intentVars, batch>>

-----------------------------------------------------------------------------
Init ==
  /\ FeeInit
  /\ intent = [x \in Online |-> NoIntent]
  /\ prov = [x \in Online |-> "none"]
  /\ clock = [x \in Online |-> Fresh]
  /\ active = TRUE
  /\ rested = [x \in Online |-> FALSE]
  /\ crowded = [x \in Online |-> FALSE]
  /\ batch = {}
  /\ job = [v \in Verifiers |-> Idle]

Concludes(v) == Close(v) \/ Mismatch(v) \/ AlreadyPaid(v) \/ Settle(v)

Verify(v) ==
  \/ Answered(v) \/ Unavailable(v)
  \/ Defer(v) \/ NotYetPaid(v) \/ ReadRoom(v) \/ Concludes(v)
  \/ Abandon(v)

Next ==
  \/ \E w \in Workers : FeeStep(w) /\ UNCHANGED <<intentVars, batch, job>>
  \/ CreateOnlinePaymentIntent
  \/ InitiationReady \/ InitiationRefused \/ InitiationUncertain
  \/ CustomerPays \/ ProviderFails \/ SetTenantActive \/ OthersChange
  \/ \E x \in Online : TimePasses(x) \/ Rests(x)
  \/ \E v \in Callers : Callback(v) \/ ClientConfirm(v)
  \/ StartSweep \/ SweepDies \/ \E x \in Online : Reconcile(x)
  \/ \E v \in Verifiers : Verify(v)

\* Time passes, initiation ends, and the scheduler starts a sweep again and
\* again.  A step of the sweep that comes up again and again is done at some
\* time: the provider answers, and the process does not die before it always.
Fairness ==
  /\ WF_vars(InitiationReady \/ InitiationRefused \/ InitiationUncertain)
  /\ \A x \in Online : WF_vars(TimePasses(x)) /\ WF_vars(Rests(x))
  /\ WF_vars(StartSweep)
  /\ \A x \in Online : SF_vars(Reconcile(x))
  /\ SF_vars(Answered(Sweep)) /\ SF_vars(NotYetPaid(Sweep)) /\ SF_vars(ReadRoom(Sweep))
  /\ SF_vars(Concludes(Sweep))
  /\ WF_vars(Abandon(Sweep))

Spec == Init /\ [][Next]_vars /\ Fairness

-----------------------------------------------------------------------------
(***************************************************************************)
(* Properties                                                              *)
(***************************************************************************)
\* Records keep their shape; verifications and sweeps know intents that exist.
TypeOK ==
  /\ \A i \in Invoices : inv[i].status \in InvoiceStatuses /\ inv[i].total \in Nat
  /\ \A x \in Online :
       /\ intent[x].status \in Unsettled \cup {"none", "SUCCEEDED"}
       /\ intent[x].status # "none" => intent[x].invoice \in Invoices /\ intent[x].amount > 0
       /\ intent[x].parked => intent[x].status = "PENDING"
       /\ clock[x] \in {Fresh, Stale, Expired}
  /\ \A v \in Verifiers : job[v] # Idle => intent[job[v].x].status # "none"
  /\ \A c \in batch : intent[c.x].status # "none" /\ (c.age = Expired => clock[c.x] = Expired)

\* Only money the provider has confirmed to the intent's amount is credited,
\* whatever callbacks claim.
CreditedMoneyWasPaid ==
  \A x \in Online : pay[x].status # "none" => prov[x] = "paid"

\* An intent is settled exactly when its payment exists: verifications that
\* overlap neither part the two nor take back what another has settled.
SettledIffPaid ==
  \A x \in Online : intent[x].status = "SUCCEEDED" <=> pay[x].status # "none"

\* Money the provider has taken is not behind an intent that was closed: a
\* close that used an older answer or an older clock would lose it.
ClosedWasNotPaid ==
  \A x \in Online : intent[x].status \in Closed => prov[x] \notin {"paid", "other"}

Over(x) == intent[x].status \in Closed \cup {"SUCCEEDED"} \/ intent[x].parked

\* Credit that sumNetPaidAmount does not see: parts of receipts over several
\* invoices, and advances allocated later.
HiddenCredit(i) == Credit(i) > NetPaid(i)

\* A callback or client finds nothing decided and renews updatedAt.
Postponed(x) == \E v \in Callers : Defer(v) /\ job[v].x = x

\* Callbacks and clients do not postpone the intent for ever, and a hundred
\* others do not stand before it for ever.
Reached(x) == <>[][~Postponed(x)]_vars /\ <>[](~crowded[x])

\* The sweep settles, closes or parks every intent of an active school that it
\* reaches.  Where the invoice holds credit that the settlement does not see
\* it may not.
EveryIntentEnds ==
  \A x \in Online :
    Reached(x) => (intent[x].status \in Open /\ active
                     ~> Over(x) \/ ~active \/ HiddenCredit(intent[x].invoice))

\* The sweep settles, closes or parks every intent of an active school that it
\* reaches.
SweepEndsEveryIntent ==
  \A x \in Online :
    Reached(x) => (intent[x].status \in Open /\ active ~> Over(x) \/ ~active)

=============================================================================
