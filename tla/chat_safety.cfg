\* A message sent here and an upload, two connections, two page requests.
SPECIFICATION ChatSpec
CONSTANTS
  Messages = {mine, file}
  Pushes = {mine, file}
  Own = {mine}
  Uploads = {file}
  Answer = None
  Fetches = {f1, f2}
  Page = 1
  MaxConns = 2
  MaxEvents = 3
  None = None
INVARIANTS SubscriptionsHold NothingElseIsMissed ShownOnce
SYMMETRY Symmetry
\* Every message, page and connection is used at most once: the system does stop.
CHECK_DEADLOCK FALSE
