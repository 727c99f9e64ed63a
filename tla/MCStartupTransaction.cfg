CONSTANTS
  s1 = s1
  s2 = s2
  Policies <- MCPolicies
  IdleStates = {s1, s2}
  Targets = {2, 3}
  AutoTarget = AutoTarget
  Machines <- MCMachines
  On = On
  Performance = Performance
  Epp = Epp
  Latency = Latency
  Stock = Stock
  MaxFreq = 4
  NoRequest = NoRequest
  NoPath = NoPath
SPECIFICATION StartupSpec
INVARIANT ReleaseRestoresPMQoS
INVARIANT MinimumInsideLimits
PROPERTY ImplementsExecutor
