SPECIFICATION Spec
CONSTANTS
  c1 = c1
  c2 = c2
  c3 = c3
  Channels = {c1, c2, c3}
  Workers = {w1}
  Clients = {a1}
  NoChannel = NoChannel
  Kinds = {"relay"}
  Threshold = 2
  Cooldown = 1
  KeyCount <- MCKeyCount
  Priority <- MCPriority
INVARIANT FailsOver
