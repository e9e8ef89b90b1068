-------------------------- MODULE CorrectionContract --------------------------
(***************************************************************************)
(* What the finance office promises about money that leaves again.  A      *)
(* payment is received once.  Part of it is returned only for a correction *)
(* that was granted: once, by the amount granted, and never more than was  *)
(* received.  FinanceCorrections implements this through allocation rows,  *)
(* approval requests and two kinds of transactions.                        *)
(***************************************************************************)
EXTENDS Integers

CONSTANTS Payments, Requests

VARIABLES
  received,   \* what each payment brought
  returned,   \* what was given back of it
  granted,    \* the corrections waiting: a function to payment and amount
  carried     \* the corrections carried out

contractVars == <<received, returned, granted, carried>>

Corrections == [p : Payments, amount : Nat \ {0}]

ContractInit ==
  /\ received = [p \in Payments |-> 0]
  /\ returned = [p \in Payments |-> 0]
  /\ granted = [r \in {} |-> 0]
  /\ carried = {}

Receive(p) ==
  /\ received[p] = 0
  /\ received'[p] \in Nat \ {0}
  /\ received' = [received EXCEPT ![p] = received'[p]]
  /\ UNCHANGED <<returned, granted, carried>>

Granted(R) == [r \in R |-> granted[r]]

Grant(r) ==
  /\ r \notin DOMAIN granted \cup carried
  /\ DOMAIN granted' = DOMAIN granted \cup {r}
  /\ \A s \in DOMAIN granted : granted'[s] = granted[s]
  /\ granted'[r] \in Corrections
  /\ returned[granted'[r].p] + granted'[r].amount <= received[granted'[r].p]
  /\ UNCHANGED <<received, returned, carried>>

Withdraw(r) ==
  /\ r \in DOMAIN granted
  /\ granted' = Granted(DOMAIN granted \ {r})
  /\ UNCHANGED <<received, returned, carried>>

Return(r) ==
  /\ r \in DOMAIN granted
  /\ returned' = [returned EXCEPT ![granted[r].p] = @ + granted[r].amount]
  /\ returned'[granted[r].p] <= received[granted[r].p]
  /\ granted' = Granted(DOMAIN granted \ {r})
  /\ carried' = carried \cup {r}
  /\ UNCHANGED received

ContractNext ==
  \/ \E p \in Payments : Receive(p)
  \/ \E r \in Requests : Grant(r) \/ Withdraw(r) \/ Return(r)

Contract == ContractInit /\ [][ContractNext]_contractVars

=============================================================================
