\* One browser with two tabs, or two slugs and one MCP session: four and three requests.
SPECIFICATION Spec
CONSTANTS
  Calls = {r1, r2, r3, r4}
  Tabs = {t1, t2}
  WrongCode = WrongCode
  MaxAttempts = 1
  Earlier = Earlier
  Requests = {r1, r2, r3, r4}
  MaxAgentRequests = 3
  Slugs = {s1, s2}
  MaxSessions = 1
  None = None
  Nothing = Nothing
INVARIANTS TriesAreCounted KeysReachOneOwner
PROPERTIES TokenKept
SYMMETRY Symmetry
\* Once every request has been sent and answered nothing is left to do.
CHECK_DEADLOCK FALSE
