-------------------------- MODULE FinanceCorrections --------------------------
(***************************************************************************)
(* Refunds and reversals of payments by maker and checker                  *)
(* (finance.service.ts: createFinanceCorrectionRequest,                    *)
(* transitionFinanceRequest, refundPayment, reversePayment), next to the   *)
(* requests of FeeAllocations that move the same money.                    *)
(*                                                                         *)
(* The transactions of this module are SERIALIZABLE, those of              *)
(* FeeAllocations are READ COMMITTED.  A correction therefore reads from   *)
(* the snapshot its first statement took; PostgreSQL refuses it when a row *)
(* it writes or locks was written after the snapshot, and not when such a  *)
(* row was only locked.                                                    *)
(***************************************************************************)
EXTENDS FeeAllocations

CONSTANTS
  Requests,        \* refund and reversal requests
  Users,           \* staff with every finance permission
  ApprovalCounts,  \* the approval counts a policy may ask for
  MaxPolicies,     \* bound: how many approval policies are created
  Nobody

ASSUME CorrectionAssumption ==
  /\ ApprovalCounts \subseteq Nat \ {0}
  /\ MaxPolicies \in Nat /\ Nobody \notin Users
  /\ "collect" \notin Requests /\ Keys \cap Requests = {}

VARIABLES
  req,      \* req[r]: a row of FinanceApprovalRequest with its decisions
  policy    \* how many policies are active, and the approval count of the newest

vars == <<inv, pay, alloc, op, req, policy>>

-----------------------------------------------------------------------------
\* What the source fingerprint of a payment covers.
Source(p) ==
  [payment |-> pay[p], rows |-> alloc[p],
   invoices |-> [i \in {row.to : row \in ToSet(alloc[p])} \ {Advance} |->
                   [status |-> inv[i].status, total |-> inv[i].total]]]

Active == {"PENDING", "REVIEWED", "APPROVED"}
NoRequest == [status |-> "none", type |-> "REFUND", p |-> Nobody, amount |-> 0,
              maker |-> Nobody, reviewer |-> Nobody, deciders |-> {},
              executor |-> Nobody, policy |-> 0, required |-> 0, source |-> Nobody]

\* financeCorrectionPolicy finds no policy or one; among two it does not choose.
OnePolicy == policy.active <= 1

\* assertFinanceRequestCurrent: neither the policy nor the payment changed.
Current(r) ==
  OnePolicy /\ req[r].policy = policy.active /\ req[r].source = Source(req[r].p)

Refundable(p) == pay[p].amount - pay[p].refunded

\* createFinanceCorrectionRequest
CreateFinanceCorrectionRequest ==
  \E r \in Requests, u \in Users, p \in Payments, type \in {"REFUND", "REVERSAL"} :
    \E amount \in IF type = "REFUND" THEN 1..Refundable(p) ELSE {pay[p].amount} :
      /\ req[r].status = "none"
      /\ OnePolicy
      /\ pay[p].status = "SUCCESS"
      /\ type = "REVERSAL" => pay[p].refunded = 0
      /\ amount <= Refundable(p)
      /\ \A s \in Requests : req[s].p = p => req[s].status \notin Active
      /\ req' = [req EXCEPT ![r] =
                   [status |-> "PENDING", type |-> type, p |-> p, amount |-> amount,
                    maker |-> u, reviewer |-> Nobody, deciders |-> {}, executor |-> Nobody,
                    policy |-> policy.active, required |-> policy.required,
                    source |-> Source(p)]]
      /\ UNCHANGED <<inv, pay, alloc, op, policy>>

\* Every transition claims the row it read, and marks it written.
Transition(r, new) ==
  /\ req' = [req EXCEPT ![r] = new]
  /\ op' = [w \in Workers |-> Told(op[w], {r})]
  /\ UNCHANGED <<inv, pay, alloc, policy>>

\* transitionFinanceRequest with the duties of finance-request.policy.ts
Review ==
  \E r \in Requests, u \in Users :
    /\ req[r].status = "PENDING"
    /\ u # req[r].maker
    /\ Current(r)
    /\ Transition(r, [req[r] EXCEPT !.status = "REVIEWED", !.reviewer = u])

MayApprove(r, u) == u \notin {req[r].maker, req[r].reviewer} \cup req[r].deciders

Approve ==
  \E r \in Requests, u \in Users :
    /\ req[r].status = "REVIEWED"
    /\ MayApprove(r, u)
    /\ Current(r)
    /\ Transition(r,
         [req[r] EXCEPT !.deciders = @ \cup {u},
            !.status = IF Cardinality(req[r].deciders) + 1 >= req[r].required
                       THEN "APPROVED" ELSE "REVIEWED"])

Reject ==
  \E r \in Requests, u \in Users :
    /\ req[r].status \in {"PENDING", "REVIEWED", "APPROVED"}
    /\ u # req[r].maker
    /\ Transition(r, [req[r] EXCEPT !.status = "REJECTED"])

\* createPolicy of the approval workflows adds an active policy and leaves the
\* older ones active: every open request is outdated, and from the second
\* policy on a request can only be rejected.
CreatePolicy ==
  /\ policy.active < MaxPolicies
  /\ \E n \in ApprovalCounts : policy' = [active |-> policy.active + 1, required |-> n]
  /\ UNCHANGED <<inv, pay, alloc, op, req>>

-----------------------------------------------------------------------------
\* allocateCorrectionAcrossPaymentAllocations: the balances of the payment in
\* the order its rows first name them, as far as the amount goes.
Order(rows) ==
  LET order[n \in 0..Len(rows)] ==
        IF n = 0 THEN <<>>
        ELSE IF rows[n].to \in ToSet(order[n - 1]) THEN order[n - 1]
        ELSE Append(order[n - 1], rows[n].to)
  IN  order[Len(rows)]
Part(balance, remaining) == IF balance < remaining THEN balance ELSE remaining
CorrectionPlan(p, amount) ==
  LET order == Order(alloc[p])
      plan[n \in 0..Len(order)] ==
        IF n = 0 THEN <<>>
        ELSE LET part == Part(Net(p, order[n]), amount - SumOf(plan[n - 1]))
             IN  IF part > 0 THEN Append(plan[n - 1], Row(order[n], part, "plan"))
                 ELSE plan[n - 1]
  IN  plan[Len(order)]

AllocatedInvoices(p) == {i \in Invoices : \E n \in DOMAIN alloc[p] : alloc[p][n].to = i}

\* requireFinanceRequestDuty for EXECUTE.
\* Seeded fault: only the maker is kept from executing.
MayExecuteUnlessMaker(r, u) ==
  Cardinality(req[r].deciders) >= req[r].required /\ u # req[r].maker
MayExecute(r, u) ==
  /\ Cardinality(req[r].deciders) >= req[r].required
  /\ req[r].deciders \cap {req[r].maker, req[r].reviewer} = {}
  /\ u \notin {req[r].maker, req[r].reviewer} \cup req[r].deciders

\* refundPayment and reversePayment up to their transaction.
ReadExecute(w) ==
  \E r \in Requests, u \in Users :
    LET p == req[r].p IN
    /\ op[w] = Idle
    /\ req[r].status = "APPROVED" /\ MayExecute(r, u)
    /\ IF req[r].type = "REFUND"
       THEN /\ \A i \in AllocatedInvoices(p) : inv[i].status # "VOID"
            /\ req[r].amount <= Refundable(p)
       ELSE pay[p].status = "SUCCESS" /\ pay[p].refunded = 0
    /\ SumOf(CorrectionPlan(p, req[r].amount)) = req[r].amount
    /\ Become(w, [kind |-> "execute", r |-> r, u |-> u, stage |-> "read",
                  plan |-> CorrectionPlan(p, req[r].amount),
                  seen |-> [i \in AllocatedInvoices(p) |-> inv[i].total],
                  stale |-> {}], {})
    /\ UNCHANGED <<inv, pay, alloc, req, policy>>

\* claimFinancialExecution, on what the snapshot holds.
MayClaim(r) == req[r].status = "APPROVED" /\ Current(r)

\* The transaction takes its snapshot and decides on it.
TakeSnapshot(w) ==
  LET o == op[w] IN
  /\ o # Idle /\ o.kind = "execute" /\ o.stage = "read"
  /\ req[o.r].type = "REFUND" => /\ pay[req[o.r].p].status # "REVERSED"
                                 /\ req[o.r].amount <= Refundable(req[o.r].p)
  /\ MayClaim(o.r)
  /\ Become(w, [o EXCEPT !.stage = "tx"], {})
  /\ UNCHANGED <<inv, pay, alloc, req, policy>>

Negated(plan, r) == [n \in DOMAIN plan |-> Row(plan[n].to, -plan[n].amount, r)]

\* A refund updates the invoices of its plan, a reversal all that it read.
\* Seeded fault: only the first invoice, as when a payment had one.
CorrectedFirst(o) == {o.plan[1].to} \ {Advance}
Corrected(o) ==
  IF req[o.r].type = "REFUND"
  THEN {row.to : row \in ToSet(o.plan)} \ {Advance} ELSE DOMAIN o.seen

Executed(o) == [req EXCEPT ![o.r].status = "EXECUTED", ![o.r].executor = o.u]

\* The rows of the plan are written, the payment and the request follow.
Execute(w) ==
  LET o == op[w]
      r == o.r
      p == req[r].p IN
  /\ o # Idle /\ o.kind = "execute" /\ o.stage = "tx"
  /\ o.stale \cap ({r, p} \cup Corrected(o)) = {}
  /\ AllocationGuard(p, pay[p].amount, Negated(o.plan, r))
  /\ alloc' = [alloc EXCEPT ![p] = @ \o Negated(o.plan, r)]
  /\ inv' = [i \in Invoices |->
               IF i \in Corrected(o)
               THEN [inv[i] EXCEPT !.status =
                       ResolveInvoiceStatusAfterAdjustment(Credit(i) - SumTo(o.plan, i), o.seen[i])]
               ELSE inv[i]]
  /\ pay' = IF req[r].type = "REFUND"
            THEN [pay EXCEPT ![p].refunded = @ + req[r].amount]
            ELSE [pay EXCEPT ![p].status = "REVERSED"]
  /\ req' = Executed(o)
  /\ Become(w, Idle, {r} \cup Corrected(o)
                      \cup (IF req[r].type = "REVERSAL" THEN {p} ELSE {}))
  /\ UNCHANGED policy

-----------------------------------------------------------------------------
Init ==
  /\ FeeInit
  /\ req = [r \in Requests |-> NoRequest]
  /\ policy = [active |-> 0, required |-> 1]

Next ==
  \/ \E w \in Workers : FeeStep(w) /\ UNCHANGED <<req, policy>>
  \/ \E w \in Workers : ReadExecute(w) \/ TakeSnapshot(w) \/ Execute(w)
  \/ CreateFinanceCorrectionRequest \/ Review \/ Approve \/ Reject
  \/ CreatePolicy

Spec == Init /\ [][Next]_vars

-----------------------------------------------------------------------------
(***************************************************************************)
(* Properties                                                              *)
(***************************************************************************)
AllocationRow(row) ==
  /\ row.to \in Targets /\ row.amount \in Int \ {0}
  /\ row.group \in {"collect"} \cup Keys \cup Requests

\* Records keep their shape.  No refund exceeds its payment, and nothing of a
\* payment on an invoice is negative.  Its advance may be: an executor that
\* read its plan before a reallocation takes the advance away a second time.
TypeOK ==
  /\ inv \in [Invoices -> InvoiceRows]
  /\ pay \in [Payments -> PaymentRows]
  /\ \A p \in Payments :
       /\ \A n \in DOMAIN alloc[p] : AllocationRow(alloc[p][n])
       /\ \A i \in Invoices : Net(p, i) >= 0
       /\ pay[p].refunded <= pay[p].amount
  /\ \A r \in Requests :
       /\ req[r].status \in Active \cup {"none", "REJECTED", "EXECUTED"}
       /\ req[r].deciders \subseteq Users
       /\ req[r].status # "none" => req[r].maker \in Users /\ req[r].p \in Payments
  /\ policy.active \in 0..MaxPolicies /\ policy.required \in ApprovalCounts \cup {1}

\* The three records of one payment agree: what its rows keep is what it
\* brought less its refunds, and a reversed payment keeps nothing.
PaymentsBalance ==
  \A p \in Payments :
    Kept(p) = IF pay[p].status = "SUCCESS" THEN Refundable(p) ELSE 0

\* The promise of CorrectionContract: what the allocation rows of a payment no
\* longer keep was returned by approved requests, once each, to the amount.
Approved == {r \in Requests : req[r].status = "APPROVED"}
Promise == INSTANCE CorrectionContract WITH
  received <- [p \in Payments |-> pay[p].amount],
  returned <- [p \in Payments |-> pay[p].amount - Kept(p)],
  granted <- [r \in Approved |-> [p |-> req[r].p, amount |-> req[r].amount]],
  carried <- {r \in Requests : req[r].status = "EXECUTED"}
KeepsPromise == Promise!Contract

\* A refund or reversal took a maker, a reviewer, the approvers its policy
\* asked for and an executor: no one served twice.
FourEyes ==
  \A r \in Requests :
    req[r].status = "EXECUTED" =>
      Cardinality({req[r].maker, req[r].reviewer, req[r].executor} \cup req[r].deciders)
        >= 3 + req[r].required

\* Away from adjusted and voided invoices the status tells the balance,
\* whoever wrote it last.
StatusTellsBalance ==
  \A i \in Invoices \ (Adjustable \cup Voidable) :
    inv[i].status = CASE Credit(i) >= inv[i].total -> "PAID"
                      [] Credit(i) \in 1..(inv[i].total - 1) -> "PARTIAL"
                      [] OTHER -> "ISSUED"

=============================================================================
