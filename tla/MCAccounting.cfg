SPECIFICATION Spec
CONSTANTS
  Workers = {w1, w2}
  Senders = {s1}
  Tokens = {k1}
  Users = {u1, u2}
  NoToken = NoToken
  NoOwner = NoOwner
  MaxCost = 2
  Quotas <- MCQuotas
  Credits <- MCCredits
  TransferAmounts = {1, 2}
  MaxAdmissions = 3
  MaxEdits = 1
SYMMETRY Symmetry
INVARIANTS TypeOK OwnerOverdraftBounded TokenOverdraftBounded TokenServiceBounded
PROPERTIES ImplementsMeter
CHECK_DEADLOCK FALSE
