\* One payment over two invoices, its refund or reversal under a policy that
\* changes, next to reallocations, adjustments and voids.
SPECIFICATION Spec
CONSTANTS
  p1 = p1
  k1 = k1
  r1 = r1
  u1 = u1
  u2 = u2
  u3 = u3
  u4 = u4
  w1 = w1
  w2 = w2
  Invoices = {1, 2}
  Adjustable = {2}
  Voidable = {2}
  Payments = {p1}
  Online = {}
  Keys = {k1}
  Workers = {w1, w2}
  Total = 2
  Amounts = {2}
  MaxLines = 1
  Requests = {r1}
  Users = {u1, u2, u3, u4}
  ApprovalCounts = {1}
  MaxPolicies = 2
  Advance = Advance
  Idle = Idle
  Nobody = Nobody
INVARIANTS TypeOK InvoicesNotOverpaid PaymentsBalance FourEyes StatusTellsBalance
PROPERTY KeepsPromise
SYMMETRY Symmetry
CHECK_DEADLOCK FALSE
