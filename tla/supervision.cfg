\* A server that may answer anything and hang up at any time; the retry time is reloaded.
CONSTANTS
  Initial = 1
  Multiplier = 2
  MaxDelay = 3
  MaxRetry = 6
  RetryTimes = {4, 6}
  Horizon = 6
  Answers = {"ok", "refused", "garbled", "hangs_up", "silent", "rejected"}
  LossInSetup = TRUE
SPECIFICATION FairSpec
INVARIANTS TornDownUnlessCrashed ReadyHasSession
PROPERTIES  BackoffGrows StopReturns GivesUpUnlessHungUp  FailureShutsDown
