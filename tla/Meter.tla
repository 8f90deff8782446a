--------------------------------- MODULE Meter ---------------------------------
(***************************************************************************)
(* What the metering of accounts promises, without tokens, locks and the   *)
(* order of the checks: a request is admitted while the account it is for  *)
(* can pay, a transfer while its sender has the amount left; from then on  *)
(* each is a debt of that account, and it ends by one charge, of at most   *)
(* MaxCost for a request and of the amount asked for a transfer, or by     *)
(* none.  Nothing else touches what an account has used: recharges and the *)
(* administrator change limits, names and presence.                        *)
(* Metering shows that Accounting implements this.                         *)
(***************************************************************************)
EXTENDS Integers

CONSTANTS Workers, Senders, Users, NoOwner, MaxCost, TransferAmounts

VARIABLES
  account,  \* name -> [present, enabled, quota, used]
  debts     \* what was admitted and is not settled yet: <<who, owner, possible charges>>

vars == <<account, debts>>

Present(u) == account[u].present

\* An owner that has no account is not metered.
CanPay(u) ==
  u \in Users /\ Present(u) =>
    account[u].enabled /\ (account[u].quota >= 0 => account[u].used < account[u].quota)

CanSend(u, n) == Present(u) /\ account[u].used + n <= account[u].quota

Others(us) == \A v \in Users \ us : account'[v] = account[v]

Owe(who, u, charges) ==
  /\ debts' = debts \union {<<who, u, charges>>}
  /\ \A d \in debts : d[1] # who
  /\ UNCHANGED account

Admit(w, u) == CanPay(u) /\ Owe(w, u, 0..MaxCost)

Promise(s, u, n) == CanSend(u, n) /\ Owe(s, u, {n})

\* The charge, which is nothing when the request failed or the account is gone.
Settle(d) ==
  /\ debts' = debts \ {d}
  /\ \/ UNCHANGED account
     \/ /\ d[2] \in Users /\ Present(d[2])
        /\ \E c \in d[3] : account' = [account EXCEPT ![d[2]].used = @ + c]

Open(u) ==
  /\ ~Present(u)
  /\ account'[u].present /\ account'[u].used = 0
  /\ Others({u})
  /\ UNCHANGED debts

\* Limit and status change, and perhaps the name; the use stays with the account.
Change(u, v) ==
  /\ Present(u) /\ (v = u \/ ~Present(v))
  /\ account'[v].present /\ account'[v].used = account[u].used
  /\ v # u => ~account'[u].present
  /\ Others({u, v}) /\ UNCHANGED debts

Close(u) ==
  /\ Present(u)
  /\ ~account'[u].present
  /\ Others({u}) /\ UNCHANGED debts

\* What is under way is forgotten, and so are its debts.
Forget == debts' = {} /\ UNCHANGED account

Init ==
  /\ debts = {}
  /\ \A u \in Users : account[u].used = 0

Next ==
  \/ \E w \in Workers, u \in Users \union {NoOwner} : Admit(w, u)
  \/ \E s \in Senders, u \in Users, n \in TransferAmounts : Promise(s, u, n)
  \/ \E d \in debts : Settle(d)
  \/ \E u \in Users : Open(u) \/ Close(u) \/ \E v \in Users : Change(u, v)
  \/ Forget

Spec == Init /\ [][Next]_vars
================================================================================
