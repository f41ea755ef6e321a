SPECIFICATION SigningSpec
CONSTANTS
  N = 2
  MaxReopens = 1
  MaxAttempts = 1
  TsaBreakerAt = 2
  DeliveryBreakerAt = 1
  HasCallback = TRUE
  TimestampRequested = FALSE
  LtRequested = FALSE
  Sessions = {1, 2}
  MaxRequests = 2
  EdgeMargin = 3
  HalfGap = 1
  FooterStrip = 13
  BlockGap = 4
  MergeTolerance = 0
  ColumnSplit = 21
  MinWidth = 4
  MinHeight = 4
  MinLegible = 11
  SigBoxW = 30
  SigBoxH = 10
  WatermarkRatio = 3
  MaxSlots = 8
  MaxVertical = 20
  MaxSurveyed = 24
  MaxStamps = 3
  None = None
  Papers <- SomePapers
  Anchors <- SomeAnchors
INVARIANTS
  SigningInv
  PlacementInv
  FullMeansFull
  ReservedGapStandsOnTheBlock
PROPERTIES
  KeepsContract
CHECK_DEADLOCK FALSE
