---------------------------- MODULE SessionContract ----------------------------
(***************************************************************************)
(* What the school is promised about sessions.  Somebody signs in by a     *)
(* proof of identity, given while the account is not barred; a proof opens *)
(* one session at most, and none once the account's credentials changed or *)
(* its sessions were closed.  A barred account has no session, and what    *)
(* ended never opens again.  AuthSessions implements this through token    *)
(* rows that rotate, versions of the account and requests in flight.       *)
(***************************************************************************)
EXTENDS Naturals

CONSTANTS Users, Requests

VARIABLES
  barred,    \* the accounts that may not sign in
  shut,      \* whether the whole school may not
  proofs,    \* <<u, r>>: request r proved to be u
  open,      \* <<u, f>>: session f of u
  ended,     \* sessions of the past
  closings   \* how often all sessions of an account were closed

contractVars == <<barred, shut, proofs, open, ended, closings>>

Of(u, S) == {x \in S : x[1] = u}

ContractInit ==
  /\ barred = {}
  /\ shut = FALSE
  /\ proofs = {} /\ open = {} /\ ended = {}
  /\ closings = [u \in Users |-> 0]

\* No session opens, and those that end are remembered
NoneOpens == open' \subseteq open /\ ended' = ended \cup (open \ open')

CloseAll(u) == open' = open \ Of(u, open) /\ NoneOpens

Prove(u, r) ==
  /\ ~shut /\ u \notin barred
  /\ \A p \in proofs : p[2] # r
  /\ proofs' = proofs \cup {<<u, r>>}
  /\ UNCHANGED <<barred, shut, open, ended, closings>>

Forget(u, r) ==
  /\ <<u, r>> \in proofs
  /\ proofs' = proofs \ {<<u, r>>}
  /\ UNCHANGED <<barred, shut, open, ended, closings>>

SignIn(u, r) ==
  /\ ~shut /\ u \notin barred
  /\ <<u, r>> \in proofs
  /\ proofs' = proofs \ {<<u, r>>}
  /\ \E s \in open' \ (open \cup ended) : s[1] = u /\ open' = open \cup {s}
  /\ UNCHANGED <<barred, shut, ended, closings>>

\* Sign-out, revocation, replay of an old token, expiry
End ==
  /\ UNCHANGED <<shut, closings, barred, proofs>>
  /\ NoneOpens

\* Too many failures: proofs given before remain, but are of no use while it lasts
Lock(u) ==
  /\ barred' = barred \cup {u}
  /\ CloseAll(u)
  /\ UNCHANGED <<shut, proofs, closings>>

Unlock(u) ==
  /\ barred' = barred \ {u}
  /\ UNCHANGED <<shut, proofs, open, ended, closings>>

\* The account's credentials change; it may keep sessions
Renew(u) ==
  /\ proofs' = proofs \ Of(u, proofs)
  /\ NoneOpens
  /\ open \ open' \subseteq Of(u, open)
  /\ barred' \in {barred, barred \ {u}}
  /\ UNCHANGED <<shut, closings>>

\* All that was proved and opened before is over
Close(u) ==
  /\ closings' = [closings EXCEPT ![u] = @ + 1]
  /\ proofs' = proofs \ Of(u, proofs)
  /\ CloseAll(u)
  /\ barred' \in {barred, barred \cup {u}, barred \ {u}}
  /\ UNCHANGED shut

Shut ==
  /\ shut' = ~shut
  /\ UNCHANGED <<barred, proofs, open, ended, closings>>

ContractNext ==
  \/ End
  \/ \E u \in Users, r \in Requests : Prove(u, r) \/ Forget(u, r) \/ SignIn(u, r)
  \/ \E u \in Users : Lock(u) \/ Unlock(u) \/ Renew(u) \/ Close(u)
  \/ Shut

Contract == ContractInit /\ [][ContractNext]_contractVars

================================================================================
