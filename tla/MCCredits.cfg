SPECIFICATION FairSpec
CONSTANTS
  Workers = {w1, w2}
  Users = {root, u1}
  Root = root
  Nobody = Nobody
  Codes = {c1}
  Orders = {o1}
  Invites = {i1}
  NoItem = NoItem
  Mixes <- MCMixes
  CodeQuota = 7
  OrderAmount = 5
  PlanQuota = 3
  InviteQuota = 10
  RegisterQuota = 1
  CheckinQuota = 2
  TransferAmount = 1
  MaxCost = 2
  Adjustments <- MCAdjustments
  PlanDays = 1
  MaxRequests = 3
  MaxDay = 1
  MaxCrashes = 1
INVARIANTS Conserved CreditsBounded TransferOverdraftBounded
PROPERTIES PaidOrderIsCredited
CHECK_DEADLOCK FALSE
