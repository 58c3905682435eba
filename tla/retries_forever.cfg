\* The server accepts connections and hangs up during authentication.
CONSTANTS
  Initial = 1
  Multiplier = 2
  MaxDelay = 3
  MaxRetry = 6
  RetryTimes = {6}
  Horizon = 6
  Answers = {"ok", "hangs_up"}
  LossInSetup = FALSE
SPECIFICATION FairSpec
PROPERTIES GivesUp
