SPECIFICATION BusesSpec
CONSTANTS
  Sessions = {s1}
  MaxRequests = 3
  MaxParts = 3
  Deliveries = {d1}
  WaMessages = {m1}
  Sends = {s2, s3}
  OtpTtl = 1
  TokenTtl = 1
  RowTtl = 2
  Retention = 1
  BatchSize = 1
  SlowSweeps = FALSE
  LastArrival = 0
  LastTick = 13
  MaxFaults = 3
INVARIANTS
  SessionInv
  BusInv
PROPERTIES
  PendingEnds
  ExpiredIsErased
CHECK_DEADLOCK FALSE
