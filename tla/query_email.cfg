\* An email reply beside an answer in the web chat.
SPECIFICATION Spec
CONSTANTS
  Calls = {c1, c2}
  Sweepers = {s1}
  None = None
  Timeout = 1
  MaxNow = 2
  MaxRounds = 2
  InboundEmail = TRUE
INVARIANTS AnswerStands
\* A settled query whose requests have all ended has nothing left to do.
CHECK_DEADLOCK FALSE
