SPECIFICATION MCSpec
CONSTANTS
  None = None
  Empty = Empty
  Blank = Blank
  Yes = Yes
  No = No
  Misfit = Misfit
  FirstId = FirstId
  SecondId = SecondId
  Numbers = {3, 6}
  Texts = {3}
  RiskElevationAmount = 4
  Tabs = {t1}
  Lists = {l1}
  Questions <- MCQuestions
  Patches <- MCPatches
  Entries = 4
  MaxRounds = 2
  Tools = {"ai", "langchain", "mcp"}
  Drafts <- MCDrafts
  Spaces <- MCSpaces
  MaxTurns = 2
  Null = Null
  r1 = r1
  r2 = r2
  r3 = r3
  r4 = r4
  b1 = b1
  b2 = b2
  Requests = {r1, r2, r3, r4}
  Bodies = {b1, b2}
  BodyOf <- MCBodyOf
INVARIANTS GateHolds EveryDecisionCanBeGiven AgentReadsWhatWasGiven RefusalsEnd RunsOnce AnswersAreGenuine
CHECK_DEADLOCK FALSE
