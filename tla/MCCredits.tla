------------------------------- MODULE MCCredits -------------------------------
(* A small instance of the credit handlers for TLC.                        *)
EXTENDS Credits

\* Every handler beside those it shares accounts, tables or the calendar with.
MCMixes ==
  {{"redeem", "register", "transfer", "adjust"},
   {"order", "transfer", "adjust"},
   {"transfer", "relay", "adjust"},
   {"checkin", "subscribe", "transfer"}}

\* A recharge and a debit that is larger than any account.
MCAdjustments == {1, -200}
================================================================================
