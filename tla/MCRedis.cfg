SPECIFICATION Spec
CONSTANTS
  s1 = s1
  s2 = s2
  Workers = {w1, w2}
  Sessions = {s1, s2}
  Owner <- MCOwner
  MaxIdle = 1
  MaxCalls = 4
  MaxFaults = 2
SYMMETRY Symmetry
INVARIANTS NobodyElse SessionsAgree
CHECK_DEADLOCK FALSE
