CONSTANTS
  Count = 2
  MaxFreq = 2
  BoostOf <- MCBoostOf
  Plans <- MCPlans
  MaxHotplug = 1
SPECIFICATION Spec
INVARIANT UnreportedMeansRestored
INVARIANT CrashCanRetry
PROPERTY OrderAccepted
CHECK_DEADLOCK FALSE
