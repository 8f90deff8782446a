SPECIFICATION FairSpec
CONSTANTS
  c1 = c1
  c2 = c2
  c3 = c3
  Channels = {c1}
  Workers = {w1, w2}
  Clients = {a1}
  NoChannel = NoChannel
  Kinds = {"relay", "passthrough"}
  Threshold = 2
  Cooldown = 2
  KeyCount <- MCOneKey
  Priority <- MCOnePriority
INVARIANTS FullCounterIsReplaced BreakerCatches
PROPERTIES EveryChannelComesBack
