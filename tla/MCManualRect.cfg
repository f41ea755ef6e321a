CONSTANTS
  Topics = {"batch"}
  NumFiles = 3
  Template = {1, 2, 3}
  MaxReviews = 2
  MaxPropagations = 2
  MaxFiles = 2
  MaxAgain = 1
  MaxLate = 2
  Routes = {"session"}
  DocTimeout = 30
  UserTimeout = 8
  MinLeg = 1
  MaxHops = 2
  Chain = 1
  CpuSteps = {6}
  MaxCpu = 12
  Docs = 4
  Uploads <- ThreeUploads
  MaxEntries = 4
  MaxTotal = 36
  Allowance = 1
  Growths = {0, 1, 4}
  Header = 1
  MaxName = 2
SPECIFICATION Spec
INVARIANTS
  ManualRectIsThePersons
CHECK_DEADLOCK FALSE
