SPECIFICATION Spec
CONSTANTS
  N = 3
  MaxReopens = 1
  MaxAttempts = 2
  TsaBreakerAt = 2
  DeliveryBreakerAt = 2
  HasCallback = TRUE
  TimestampRequested = TRUE
  LtRequested = TRUE
INVARIANTS
  CountersInv
  OneOpenSession
  NothingRetainedOnExit
  OneDocumentPerDeath
  BreakersHold
PROPERTIES
  KeepsPromise
CHECK_DEADLOCK FALSE
