\* Web chat, REST and MCP requests on one query; no email replies.
SPECIFICATION Spec
CONSTANTS
  Calls = {c1, c2, c3, c4}
  Sweepers = {s1}
  None = None
  Timeout = 1
  MaxNow = 3
  MaxRounds = 2
  InboundEmail = FALSE
SYMMETRY Symmetry
INVARIANTS EntitledOnRecord AcknowledgedStands AnswerIsGenuine
PROPERTY ImplementsRecord
\* A settled query whose requests have all ended has nothing left to do.
CHECK_DEADLOCK FALSE
