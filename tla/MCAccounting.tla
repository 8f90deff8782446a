----------------------------- MODULE MCAccounting -----------------------------
(* A small instance of Accounting for TLC.                                 *)
EXTENDS Metering, TLC

MCQuotas  == {-1, 1}
MCCredits == {-1, 1}

Symmetry == Permutations(Workers) \union Permutations(Users)
===============================================================================
