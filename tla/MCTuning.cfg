CONSTANTS
  h1 = h1
  h2 = h2
  Handlers <- MCHandlers
  Updates <- MCUpdates
  Starts <- MCStarts
  Policies = {1}
  Automatic = Automatic
  LimitSets <- MCLimitSets
  Samples = {2000000}
  Tolerance = 20000
  FullClamp = 2
SPECIFICATION FairSpec
INVARIANT ConfigurationValid
INVARIANT UpdatesKept
INVARIANT EngineFollowsConfig
INVARIANT PulseWithinMaximum
INVARIANT TargetsAgree
PROPERTY DutySettles
CHECK_DEADLOCK FALSE
