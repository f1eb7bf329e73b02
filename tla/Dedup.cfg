SPECIFICATION Spec
CONSTANTS
  MaxOptions = 40
  Symbols <- BoxSymbols
  Params <- MCParams
  DedupBits = 64
  MaxEntriesW = 32
  MaxLevels = 16
  MaxEntriesX = 8
  UpdateCap = 2048
  MaxClock = 2
  Feed <- SwingFeed
  RestIndex = 65000
  Debounce = 1
  SignalCap = 128
  MaxResets = 0
INVARIANTS
  DedupSuppressesRepeatsOnly
CHECK_DEADLOCK FALSE
