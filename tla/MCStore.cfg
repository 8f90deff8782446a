SPECIFICATION ProcessSpec
CONSTANTS
  w1 = w1
  w2 = w2
  k1 = k1
  k2 = k2
  none = none
  i1 = i1
  i2 = i2
  Items = {i1, i2}
  NoDoc = NoDoc
  tokens = tokens
  units = units
  Workers = {w1, w2}
  Keys = {k1, k2}
  NoKey = none
  Units = {tokens, units}
  DefaultUnit = tokens
  Deployments <- MCDeployments
  Found = 2
  MaxEdits = 5
  MaxFaults = 1
  MaxCrashes = 2
INVARIANTS AnswersKept NeverPoisoned SettingsKept DocumentsKept JournalKept
CHECK_DEADLOCK FALSE
