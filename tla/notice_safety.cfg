\* Four requests, two events and two webhooks of which one is allowed; or three
\* requests of a lead and a member, two streams and two attempts of a push.
SPECIFICATION Spec
CONSTANTS
  Hooks = {h1, h2}
  Calls = {c1, c2, c3, c4}
  Dispatches = {d1, d2}
  MaxHooks = 1
  FailureLimit = 2
  Grace = 1
  MaxNow = 2
  None = None
  Agents = {lead, member}
  Lead = lead
  Requests = {c1, c2, c3, c4}
  Unset = Unset
  Streams = {s1, s2}
  MaxAttempts = 2
  MaxHubRequests = 3
INVARIANTS OneCurrentSecret NotDisabledEarly SharedHasLink
PROPERTIES GraceKept StreamsHear
SYMMETRY Symmetry
\* Once every request has been served and every delivery has settled nothing is left to do.
CHECK_DEADLOCK FALSE
