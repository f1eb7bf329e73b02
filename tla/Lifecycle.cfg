SPECIFICATION Spec
CONSTANTS
  MaxEntriesW = 32
  MaxLevels = 16
  MaxEntriesX = 8
  Options = {1}
  TopLevels <- OneLevel
  MaxMoves = 3
  MaxDrops = 2
  Environments <- SomeEnvironments
INVARIANTS
  CaughtUpExact
  CallbacksFindTables
PROPERTIES
  CatchesUp
  SignalEndsIt
  StartEnds
CHECK_DEADLOCK FALSE
