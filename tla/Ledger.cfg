SPECIFICATION Spec
CONSTANTS
  MaxOptions = 40
  Symbols <- BoxSymbols
  Params <- MCParams
  DedupBits = 1
  MaxEntriesW = 32
  MaxLevels = 16
  MaxEntriesX = 8
  UpdateCap = 2048
  MaxClock = 1
  Feed <- SwingFeed
  RestIndex = 65000
  Debounce = 1
  SignalCap = 4
  MaxResets = 1
INVARIANTS
  SignalBudget
  NoSignalDropped
PROPERTIES
  ImplementsLedger
  ImplementsAtomicFeed
  SignalsReachOperator
  EngineDrains
CHECK_DEADLOCK FALSE
