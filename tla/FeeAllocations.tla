--------------------------- MODULE FeeAllocations ---------------------------
(***************************************************************************)
(* Fee invoices, payments and the rows that allocate payments to invoices  *)
(* (finance.service.ts: collectPayment, reallocatePayment, voidInvoice,    *)
(* createInvoiceAdjustment).                                               *)
(*                                                                         *)
(* A handler reads outside its transaction, decides, and then writes in    *)
(* one READ COMMITTED transaction.  The read and the write are two steps   *)
(* here, and what the handler remembers in between is op[w].  The write    *)
(* step is one action: its transaction locks the rows it touches before    *)
(* it reads them again.                                                    *)
(*                                                                         *)
(* Amounts are small integers; VAT, receipts, journals, notifications and  *)
(* DRAFT invoices are left out.                                            *)
(***************************************************************************)
EXTENDS Integers, Sequences, FiniteSets, SequencesExt, FiniteSetsExt

CONSTANTS
  Invoices,        \* the invoices of one student, numbers: their id order
  Adjustable,      \* the invoices a bursar adjusts
  Voidable,        \* the invoices a bursar voids
  Payments,        \* one element per idempotency key of a payment
  Online,          \* the keys of online payments: cashiers do not use them
  Keys,            \* idempotency keys of reallocatePayment
  Workers,         \* requests the API handles at the same time
  Total,           \* the total of every invoice when it is issued
  Amounts,         \* the amounts cashiers collect
  MaxLines,        \* bound: an invoice with as many adjustments is not read for another
  Advance,         \* the target of a row without an invoice
  Idle             \* a worker without a request

ASSUME FeeAssumption ==
  /\ Invoices \subseteq Nat /\ IsFiniteSet(Invoices) /\ IsFiniteSet(Payments)
  /\ Adjustable \subseteq Invoices /\ Voidable \subseteq Invoices
  /\ Online \subseteq Payments
  /\ Total \in Nat \ {0} /\ Amounts \subseteq Nat \ {0} /\ MaxLines \in Nat
  /\ Advance \notin Nat

VARIABLES
  inv,      \* inv[i]: status, total, and how many adjustments it has
  pay,      \* pay[p]: status, amount, and the sum of its refunds
  alloc,    \* alloc[p]: the allocation rows of the payment, oldest first
  op        \* op[w]: the request worker w handles and what it has read

feeVars == <<inv, pay, alloc, op>>

-----------------------------------------------------------------------------
Targets == Invoices \cup {Advance}
InvoiceStatuses == {"ISSUED", "PARTIAL", "PAID", "VOID"}
InvoiceRows == [status : InvoiceStatuses, total : Nat, adjusted : Nat]
PaymentRows == [status : {"none", "SUCCESS", "REVERSED"}, amount : Nat, refunded : Nat]

Row(t, amount, group) == [to |-> t, amount |-> amount, group |-> group]

\* What rows add up to, and what those to one target add up to.
SumOf(rows) == LET sum[n \in 0..Len(rows)] ==
                     IF n = 0 THEN 0 ELSE sum[n - 1] + rows[n].amount
               IN  sum[Len(rows)]
SumTo(rows, t) ==
  SumOf([n \in DOMAIN rows |->
           Row(t, IF rows[n].to = t THEN rows[n].amount ELSE 0, rows[n].group)])

\* What is left of a payment on one target, and on all of them.
Net(p, t) == SumTo(alloc[p], t)
Kept(p) == SumOf(alloc[p])

\* What is paid on an invoice: sumInvoiceAllocationAmount.
Credit(i) == MapThenSumSet(LAMBDA p : Net(p, i), Payments)
Remaining(i) == IF Credit(i) < inv[i].total THEN inv[i].total - Credit(i) ELSE 0

\* A plan gives amounts to invoices.  Its rows are written in id order.
InOrder(I) == CHOOSE order \in [1..Cardinality(I) -> I] :
                \A m, n \in DOMAIN order : m < n => order[m] < order[n]
PlanRows(plan, group) ==
  LET order == InOrder(DOMAIN plan)
  IN  [n \in DOMAIN order |-> Row(order[n], plan[order[n]], group)]
PlanTotal(plan) == SumOf(PlanRows(plan, "collect"))

\* Plans of positive amounts on some invoices.
Plans(limit) == {plan \in UNION {[I -> 1..limit] : I \in SUBSET Invoices} :
                   PlanTotal(plan) <= limit}

ResolveInvoiceStatusAfterAdjustment(paid, total) ==
  CASE total <= 0 \/ paid >= total -> "PAID"
    [] total > 0 /\ paid < total /\ paid > 0 -> "PARTIAL"
    [] OTHER -> "ISSUED"

-----------------------------------------------------------------------------
(***************************************************************************)
(* A transaction that holds a snapshot is told which rows were written     *)
(* after it: PostgreSQL refuses it when it reaches one of them.            *)
(***************************************************************************)
Holding(o) == o # Idle /\ o.kind = "execute" /\ o.stage = "tx"
\* Seeded fault: the transactions are READ COMMITTED, nothing refuses them.
ToldNothing(o, rows) == o
Told(o, rows) == IF Holding(o) THEN [o EXCEPT !.stale = @ \cup rows] ELSE o

\* The request of w becomes o, and its transaction wrote these rows.
Become(w, o, rows) ==
  op' = [v \in Workers |-> IF v = w THEN o ELSE Told(op[v], rows)]


-----------------------------------------------------------------------------
(***************************************************************************)
(* The trigger PaymentAllocation_guard on the rows one transaction adds to *)
(* a payment of the given amount.                                          *)
(***************************************************************************)
GuardPayment(p, amount, rows) ==
  \A n \in 1..Len(rows) :
    Kept(p) + SumOf(SubSeq(rows, 1, n)) \in 0..amount

GuardInvoices(rows) ==
  \A n \in 1..Len(rows) :
    rows[n].to \in Invoices /\ rows[n].amount > 0
      => Credit(rows[n].to) + rows[n].amount <= inv[rows[n].to].total

AllocationGuard(p, amount, rows) ==
  GuardPayment(p, amount, rows) /\ GuardInvoices(rows)

-----------------------------------------------------------------------------
(***************************************************************************)
(* collectPayment.  The amounts are checked against invoices read outside  *)
(* the transaction, whatever their status; the key is checked for replays. *)
(***************************************************************************)
ReadCollect(w) ==
  \E p \in Payments \ Online, amount \in Amounts :
    /\ op[w] = Idle
    /\ pay[p].status = "none"
    /\ \E plan \in Plans(amount) :
         /\ \A i \in DOMAIN plan : plan[i] <= Remaining(i)
         /\ Become(w, [kind |-> "collect", p |-> p, amount |-> amount, plan |-> plan], {})
    /\ UNCHANGED <<inv, pay, alloc>>

\* Seeded fault: a row for the advance is written although nothing is left over.
CollectRowsAlways(o) ==
  PlanRows(o.plan, "collect") \o <<Row(Advance, o.amount - PlanTotal(o.plan), "collect")>>
\* Seeded fault: what is left over gets no row.
CollectRowsOfPlan(o) == PlanRows(o.plan, "collect")
CollectRows(o) ==
  PlanRows(o.plan, "collect") \o
    (IF o.amount > PlanTotal(o.plan)
     THEN <<Row(Advance, o.amount - PlanTotal(o.plan), "collect")>> ELSE <<>>)

\* The status is computed from rows read again under the invoice lock.
CollectedStatus(paid, total) == IF paid >= total THEN "PAID" ELSE "PARTIAL"

\* A second request with the key finds the payment and answers with it.
MayCollect(o) ==
  /\ pay[o.p].status = "none"
  /\ AllocationGuard(o.p, o.amount, CollectRows(o))

CollectPayment(w) ==
  LET o == op[w] IN
  /\ o # Idle /\ o.kind = "collect"
  /\ MayCollect(o)
  /\ pay' = [pay EXCEPT ![o.p] = [status |-> "SUCCESS", amount |-> o.amount, refunded |-> 0]]
  /\ alloc' = [alloc EXCEPT ![o.p] = CollectRows(o)]
  /\ inv' = [i \in Invoices |->
               IF i \in DOMAIN o.plan
               THEN [inv[i] EXCEPT !.status =
                       CollectedStatus(Credit(i) + o.plan[i], inv[i].total)]
               ELSE inv[i]]
  /\ Become(w, Idle, DOMAIN o.plan)

-----------------------------------------------------------------------------
(***************************************************************************)
(* reallocatePayment moves part of an advance to invoices.  The invoices   *)
(* are read outside the transaction, and their total is used again to      *)
(* compute the status inside it.                                           *)
(***************************************************************************)
Replayed(p, k) == \E n \in 1..Len(alloc[p]) : alloc[p][n].group = k

ReadReallocate(w) ==
  \E p \in Payments, k \in Keys :
    /\ op[w] = Idle
    /\ ~Replayed(p, k)
    /\ pay[p].status = "SUCCESS"
    /\ \E plan \in Plans(Net(p, Advance)) :
         /\ DOMAIN plan # {}
         /\ \A i \in DOMAIN plan : plan[i] <= Remaining(i)
         /\ Become(w, [kind |-> "reallocate", p |-> p, key |-> k, plan |-> plan,
                       seen |-> [i \in DOMAIN plan |-> inv[i].total]], {})
    /\ UNCHANGED <<inv, pay, alloc>>

ReallocateRows(o) ==
  <<Row(Advance, -PlanTotal(o.plan), o.key)>> \o PlanRows(o.plan, o.key)

\* Under the payment lock: the key again, and the advance that is left.
MayReallocate(o) ==
  /\ ~Replayed(o.p, o.key)
  /\ Net(o.p, Advance) >= PlanTotal(o.plan)
  /\ AllocationGuard(o.p, pay[o.p].amount, ReallocateRows(o))

ReallocatePayment(w) ==
  LET o == op[w] IN
  /\ o # Idle /\ o.kind = "reallocate"
  /\ MayReallocate(o)
  /\ alloc' = [alloc EXCEPT ![o.p] = @ \o ReallocateRows(o)]
  /\ inv' = [i \in Invoices |->
               IF i \in DOMAIN o.plan
               THEN [inv[i] EXCEPT !.status =
                       ResolveInvoiceStatusAfterAdjustment(Credit(i) + o.plan[i], o.seen[i])]
               ELSE inv[i]]
  /\ Become(w, Idle, DOMAIN o.plan)
  /\ UNCHANGED pay

-----------------------------------------------------------------------------
(***************************************************************************)
(* createInvoiceAdjustment adds a line and then writes the total and the   *)
(* status it computed from the read outside the transaction.               *)
(***************************************************************************)
ReadAdjust(w) ==
  \E i \in Adjustable, delta \in {-1, 1} :
    /\ op[w] = Idle
    /\ inv[i].status \notin {"VOID", "PAID"}
    /\ inv[i].adjusted < MaxLines
    /\ inv[i].total + delta >= 0
    /\ Credit(i) <= inv[i].total + delta
    /\ Become(w, [kind |-> "adjust", i |-> i,
                  total |-> inv[i].total + delta, paid |-> Credit(i)], {})
    /\ UNCHANGED <<inv, pay, alloc>>

\* The trigger Invoice_total_guard.
InvoiceTotalGuard(i, total) == total < inv[i].total => Credit(i) <= total

\* Seeded fault: the total is lowered whatever was paid meanwhile.
MayAdjustAnyway(o) == TRUE
MayAdjust(o) == InvoiceTotalGuard(o.i, o.total)

CreateInvoiceAdjustment(w) ==
  LET o == op[w] IN
  /\ o # Idle /\ o.kind = "adjust"
  /\ MayAdjust(o)
  /\ inv' = [inv EXCEPT ![o.i] =
               [status |-> ResolveInvoiceStatusAfterAdjustment(o.paid, o.total),
                total |-> o.total, adjusted |-> @.adjusted + 1]]
  /\ Become(w, Idle, {o.i})
  /\ UNCHANGED <<pay, alloc>>

-----------------------------------------------------------------------------
(***************************************************************************)
(* voidInvoice claims the status first, which locks the invoice, and then  *)
(* counts what is allocated to it.                                         *)
(***************************************************************************)
ReadVoid(w) ==
  \E i \in Voidable :
    /\ op[w] = Idle
    /\ inv[i].status # "VOID" /\ Credit(i) <= 0
    /\ Become(w, [kind |-> "void", i |-> i], {})
    /\ UNCHANGED <<inv, pay, alloc>>

MayVoid(i) == inv[i].status # "VOID" /\ Credit(i) <= 0

VoidInvoice(w) ==
  /\ op[w] # Idle /\ op[w].kind = "void"
  /\ MayVoid(op[w].i)
  /\ inv' = [inv EXCEPT ![op[w].i].status = "VOID"]
  /\ Become(w, Idle, {op[w].i})
  /\ UNCHANGED <<pay, alloc>>

\* A guard refuses the write (a 409), or the process dies before the commit:
\* the transaction rolls back.
RollBack(w) ==
  /\ op[w] # Idle
  /\ Become(w, Idle, {})
  /\ UNCHANGED <<inv, pay, alloc>>

-----------------------------------------------------------------------------
FeeInit ==
  /\ inv = [i \in Invoices |-> [status |-> "ISSUED", total |-> Total, adjusted |-> 0]]
  /\ pay = [p \in Payments |-> [status |-> "none", amount |-> 0, refunded |-> 0]]
  /\ alloc = [p \in Payments |-> <<>>]
  /\ op = [w \in Workers |-> Idle]

FeeStep(w) ==
  \/ ReadCollect(w) \/ CollectPayment(w)
  \/ ReadReallocate(w) \/ ReallocatePayment(w)
  \/ ReadAdjust(w) \/ CreateInvoiceAdjustment(w)
  \/ ReadVoid(w) \/ VoidInvoice(w)
  \/ RollBack(w)

-----------------------------------------------------------------------------
\* However the requests that move money to and from invoices interleave, no
\* invoice is credited with more than its total and no credit is negative.
InvoicesNotOverpaid ==
  \A i \in Invoices : Credit(i) \in 0..inv[i].total

=============================================================================
