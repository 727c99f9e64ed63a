CONSTANTS
  h1 = h1
  h2 = h2
  Handlers = {h1, h2}
  Commands <- AllCommands
  Route = "device"
  MaxCommands = 2
  MaxSignals = 1
  NoThread = NoThread
SPECIFICATION FairSpec
CHECK_DEADLOCK FALSE
PROPERTY SignalStopsUnlessRace
PROPERTY StopEventEnds
