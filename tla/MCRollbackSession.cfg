CONSTANTS
  IdleStates <- MCIdleStates
  MaxFreq = 2
  Starts <- MCStarts
  MaxSignals = 2
SPECIFICATION RollbackSpec
INVARIANT ExitRestores
INVARIANT KilledIsRecoverable
INVARIANT LatencyGivenBack
CHECK_DEADLOCK FALSE
