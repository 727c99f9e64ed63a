CONSTANTS
  Dies = {3, 5, 8, 11, 14}
  SensorRange <- MCSensorRange
  FilterRange <- MCFilterRange
  Baseline = 5
  Window = 5
  Configs <- MCConfigs
  FullClamp = 10
SPECIFICATION FairSpec
INVARIANT TripSuspends
PROPERTY OpensOnlyWhenCool
PROPERTY SpikeDoesNotTrip
PROPERTY HeatSuspends
