SPECIFICATION Spec
CONSTANTS
  w1 = w1
  w2 = w2
  w3 = w3
  nobody = nobody
  Workers = {w1, w2, w3}
  Nobody = nobody
  Window = 2
  Limits <- MCLimits
  IPLimits = {0, 1}
  Costs = {1, 2}
  RoutePrefixes = {1, 2}
  RateLimits = {0, 1}
  Keys = 2
  Deployments <- MCDeployments
  MaxWrites = 6
  MaxFaults = 1
SYMMETRY Symmetry
INVARIANTS WindowBounded FormsObeyed CacheCurrent
CHECK_DEADLOCK FALSE
