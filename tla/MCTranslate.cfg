SPECIFICATION Spec
CONSTANTS
  LineKinds <- MCLines
  MaxLines = 3
  Requests <- MCRequests
  Replies <- MCReplies
  Statuses = {0, 200, 204, 429, 500}
  Estimate = 2
  TailBytes = 4
  BytesPerToken = 4
  EventBytes = 3
INVARIANTS TextsArrive ClaudeStreamIsWellFormed UsageIsReckoned RequestIsKept
CHECK_DEADLOCK FALSE
