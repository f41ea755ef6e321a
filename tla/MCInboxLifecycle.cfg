SPECIFICATION InboxSpec
CONSTANTS
  Deliveries = {d1, d2}
  WaMessages = {m1, m2}
  Sends = {s1, s2}
  OtpTtl = 1
  TokenTtl = 1
  RowTtl = 2
  Retention = 1
  BatchSize = 1
  SlowSweeps = TRUE
  LastArrival = 1
  LastTick = 6
  MaxFaults = 1
SYMMETRY Symmetry
INVARIANTS
  InboxInv
CHECK_DEADLOCK FALSE
