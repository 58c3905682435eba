\* A plugin, a chat route and the controller call over two sessions.
CONSTANTS
  Callers = {c1}
  Routes = {r1}
  Connector = me
  Requests = 2
  TopBit = 16
  MaxCalls = 3
  MaxSessions = 2
  MaxInbox = 1
  Faults = TRUE
SPECIFICATION PromptSpec
INVARIANTS PendingExact AnswersMatch NobodyLeftWaiting
PROPERTIES FailsFast 
