SPECIFICATION ServicesSpec
CONSTANTS
  Calls = {c1, c2, c3}
  Overlap = 3
  MaxFailed = 2
  MaxRestarts = 1
  Gets = {g1, g2}
  Posts = {p1}
  Life = 2
  Margin = 1
  LastMinute = 2
  MaxRevoked = 1
  Callers = {a1, a2}
  PerToken = 1
  Full = 2
  MinTtl = 1
  Lead = 1
  Lag = 1
  LastInstant = 6
  MaxRewound = 3
  Void = Void
  Beacons = {b1, b2}
  Visits = {v1, v2}
  SeriesReads = {q1}
  Replicas = {r1, r2}
  CacheTtl = 2
  Period = 1
  Window = 2
  Span = 2
  MaxRead = 1
  MaxErrors = 1
  LastMoment = 4
  Nil = Nil
INVARIANTS
  OrderInv
  ClientInv
  BucketInv
  UsageInv
PROPERTIES
  SentBeforeExpiry
SYMMETRY AlikeServices
CHECK_DEADLOCK FALSE
