CONSTANTS
  Dies = {3, 11}
  SensorRange <- MCSensorRange
  FilterRange <- MCFilterRange
  Baseline = 5
  Window = 5
  Configs <- MCConfigs
  FullClamp = 10
SPECIFICATION Spec
INVARIANT TripThrottlesDaemon
