\* One call that lists two pages of conversations.
SPECIFICATION FairAgentClientSpec
CONSTANTS
  main = main
  other = other
  Calls = {main}
  GlobalRpm = 2
  AgentRpm = 1
  RegisterRph = 1
  Minute = 2
  Hour = 2
  PenaltyMax = 3
  Jobs <- MCListings
  MaxRetries = 1
  PollInterval = 1
  MaxPollInterval = 2
  None = None
INVARIANT WholeListing
\* Calls that have ended do nothing more.
CHECK_DEADLOCK FALSE
