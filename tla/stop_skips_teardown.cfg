\* The server refuses the login on a reconnect.
CONSTANTS
  Initial = 1
  Multiplier = 2
  MaxDelay = 3
  MaxRetry = 6
  RetryTimes = {6}
  Horizon = 6
  Answers = {"ok", "rejected"}
  LossInSetup = FALSE
SPECIFICATION FairSpec
INVARIANTS PluginsTornDown
