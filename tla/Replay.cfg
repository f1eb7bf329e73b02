SPECIFICATION Spec
CONSTANTS
  MaxEntriesW = 3
  MaxLevels = 2
  MaxEntriesX = 2
  MaxLen = 4
  Messages <- SomeMessages
INVARIANTS
  SyncedSidesExact
  KeptWasNamed
