\* Every kind of request, email replies among them, under fairness.
SPECIFICATION FairSpec
CONSTANTS
  Calls = {c1, c2}
  Sweepers = {s1}
  None = None
  Timeout = 1
  MaxNow = 3
  MaxRounds = 2
  InboundEmail = TRUE
PROPERTIES EveryCallReturns OverdueIsSettled
\* A settled query whose requests have all ended has nothing left to do.
CHECK_DEADLOCK FALSE
