SPECIFICATION Spec
CONSTANTS
  Requests = {r1, r2, r3}
  Size = 2
  MaxQueue = 1
  MaxFaults = 1
INVARIANTS
  RunnerInv
  OwnVerdict
PROPERTIES
  EveryRequestSettles
CHECK_DEADLOCK FALSE
