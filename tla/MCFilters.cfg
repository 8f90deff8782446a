SPECIFICATION Spec
CONSTANTS
  Workers = {w1, w2}
  Admins = {a1, a2}
  Words = {"listed"}
  Defaults = {"default"}
  Clean = "clean"
  Unread = "unread"
  Channels = {"c1"}
  NoChannel = "none"
  Models = {"m1", "m2"}
  Flagged <- MCFlagged
  Calls <- MCCalls
  Submitted <- MCSubmitted
  MaxRequests = 2
  MaxForms = 2
  MaxFaults = 1
SYMMETRY Symmetry
INVARIANTS JudgedBySettings
CHECK_DEADLOCK FALSE
