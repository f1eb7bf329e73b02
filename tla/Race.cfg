SPECIFICATION Spec
CONSTANTS
  MaxOptions = 40
  Symbols <- RaggedSymbols
  Params <- MCParams
  DedupBits = 64
  MaxEntriesW = 32
  MaxLevels = 16
  MaxEntriesX = 8
  UpdateCap = 2
  MaxClock = 2
  Feed <- RaceFeed
  RestIndex = 65000
  Debounce = 1
  SignalCap = 128
  MaxResets = 0
INVARIANTS
  TypeOK
  QuietBookExact
  BothSidesOnlyIfCrossed
  SignalsWellFormed
  WakeupsInOrder
PROPERTIES
  WakeAfterWrite
CHECK_DEADLOCK FALSE
