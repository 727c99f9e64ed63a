CONSTANTS
  p1 = p1
  p2 = p2
  None = None
  Procs <- MCProcs
  Inodes <- MCInodes
  MaxStarts = 3
  MaxKills = 2
SPECIFICATION Spec
INVARIANT OneDaemon
INVARIANT OriginalsRecoverable
INVARIANT QuietMeansRestored
INVARIANT RunningIsReachable
INVARIANT RunningMeansBoosted
CHECK_DEADLOCK FALSE
