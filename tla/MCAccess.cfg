SPECIFICATION Spec
CONSTANTS
  n1 = n1
  n2 = n2
  n3 = n3
  e1 = e1
  p1 = p1
  p2 = p2
  Workers = {w1, w2}
  Names = {n1, n2, n3}
  Emails = {e1}
  Passwords = {p1, p2}
  Nothing = Nothing
  Fold <- MCFold
  Patches <- MCPatches
  Deployments <- MCDeployments
  Threshold = 2
  Lockout = 2
  MaxCaptchas = 2
  CaptchaTTL = 1
  CodeTTL = 1
  ResetTTL = 1
  RecoveryCodes = 2
  MaxTime = 2
  MaxCrashes = 1
INVARIANTS FirstRootsBounded FailuresBounded HandedOutWorksOnce EnabledSecretWasProved RecoveryBounded
SYMMETRY Symmetry
CHECK_DEADLOCK FALSE
