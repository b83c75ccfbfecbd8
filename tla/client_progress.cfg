\* One repetition; two requests a window from the address and one of the agent.
SPECIFICATION FairAgentClientSpec
CONSTANTS
  main = main
  other = other
  Calls = {main, other}
  GlobalRpm = 2
  AgentRpm = 1
  RegisterRph = 1
  Minute = 2
  Hour = 2
  PenaltyMax = 3
  Jobs <- MCJobs
  MaxRetries = 1
  PollInterval = 1
  MaxPollInterval = 2
  None = None
PROPERTIES EveryWaitEnds EveryRequestEnds
\* Calls that have ended do nothing more.
CHECK_DEADLOCK FALSE
