\* Two tabs, two answers and a query that is clarified once; or two humans, two
\* conversations and two invitations of one agent, with four requests.
SPECIFICATION MCSpec
CONSTANTS
  Tabs = {t1, t2}
  Answers = {r1, r2}
  App = App
  None = None
  Risks = {"medium", "critical"}
  Timeout = 1
  MaxRounds = 2
  MaxNow = 2
  Agent = agent
  Agents <- MCAgents
  Humans = {h1, h2}
  Respelled = {h1}
  Addresses <- MCAddresses
  Conversations = {k1, k2}
  Creator <- MCCreator
  Invitations = {i1, i2}
  Requests = {c1, c2}
  MaxCalls = 4
INVARIANTS AnsweredMeansRecorded SpentByItsAnswer SeatsAreConsented AcceptedIsSeated
PROPERTIES LinkImplementsRecord RevocationHolds DecidedStays
SYMMETRY Symmetry
CHECK_DEADLOCK FALSE
