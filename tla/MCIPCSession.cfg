CONSTANTS
  c1 = c1
  c2 = c2
  Clients <- MCClients
  Calls <- MCCalls
  Backlog = 1
  MaxStarts = 2
SPECIFICATION FairSpec
INVARIANT AnswerTellsWhatRan
PROPERTY LateOnlyAfterGivingUp
PROPERTY CallReturns
CHECK_DEADLOCK FALSE
