------------------------------- MODULE Metering --------------------------------
(* Accounting implements Meter.                                            *)
EXTENDS Accounting

\* A request is a debt of its owner from the check of the account until its charge, a
\* transfer one of its sender from the check of the remainder until the debit.
Debts ==
  {<<w, work[w].owner, 0..MaxCost>> :
     w \in {v \in Workers : work[v].stage \in {"routing", "charge", "account"}}}
  \union
  {<<s, transfer[s].from, {transfer[s].amount}>> :
     s \in {v \in Senders : transfer[v].stage = "debit"}}

M == INSTANCE Meter WITH account <- account, debts <- Debts

\* Whatever tokens, locks and crashes do in between, an account only admits requests
\* while it can pay and transfers while it has the amount left, and is charged once at
\* most for each of them: a request by at most MaxCost, a transfer by its amount.
ImplementsMeter == M!Spec
================================================================================
