CONSTANTS
  h1 = h1
  h2 = h2
  Handlers = {h1, h2}
  Commands <- AllCommands
  Route = "cpuidle"
  MaxCommands = 3
  MaxSignals = 2
  NoThread = NoThread
SYMMETRY ClientSymmetry
SPECIFICATION Spec
CHECK_DEADLOCK FALSE
INVARIANT OnlyKnownRacesLeaveChanges
INVARIANT LockedMeansBoosted
INVARIANT PausedMeansQuiet
