\* An advance allocated to the invoice between the callback and the sweep.
SPECIFICATION Spec
CONSTANTS
  p1 = p1
  x1 = x1
  k1 = k1
  w1 = w1
  c1 = c1
  Invoices = {1}
  Adjustable = {}
  Voidable = {}
  Payments = {p1, x1}
  Online = {x1}
  Keys = {k1}
  Workers = {w1}
  Total = 1
  Amounts = {1}
  MaxLines = 0
  Advance = Advance
  Idle = Idle
  Callers = {}
  Sweep = Sweep
PROPERTY SweepEndsEveryIntent
