CONSTANTS
  stopper = stopper
  Stoppers <- MCStoppers
  Cpus = 2
  MaxStarts = 2
SPECIFICATION FairSpec
INVARIANT NotRunningMeansQuiet
INVARIANT OneController
PROPERTY StopReturns
CHECK_DEADLOCK FALSE
