CONSTANTS
  Backend = "uboot"
  GrubActivate <- AnyActivation
  MaxTries = 2
  MaxVersion = 4
  FactoryVersion = 1
  DefaultFloor = 1
  TrustedFloor = 0
  Manifests <- AllReleases
  Dead = {3}
  Unhealthy = {2}
  OperatorCmds = {"install", "rollback", "mark-good"}
  StatusNames = "pending"
  Overlap = FALSE
  MaxOps = 2
  MaxFaults = 2
  NoState = NoState
  Corrupt = Corrupt
SPECIFICATION FairSpec
PROPERTIES FloorMonotone WritesAboveFloor ImplementsABUpdate ReachesUserspace GoodUpdateMarked
