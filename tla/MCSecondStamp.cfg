CONSTANTS
  EdgeMargin = 3
  HalfGap = 1
  FooterStrip = 13
  BlockGap = 4
  MergeTolerance = 0
  ColumnSplit = 21
  MinWidth = 4
  MinHeight = 4
  MinLegible = 11
  SigBoxW = 30
  SigBoxH = 10
  WatermarkRatio = 3
  MaxSlots = 8
  MaxVertical = 20
  MaxSurveyed = 24
  MaxStamps = 3
  None = None
  Papers <- NotYetSigned
  Anchors <- SomeAnchors
SPECIFICATION PlacementSpec
INVARIANTS
  NeverOnASignature
CHECK_DEADLOCK FALSE
