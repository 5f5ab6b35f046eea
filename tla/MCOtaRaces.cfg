CONSTANTS
  Backend = "grub"
  GrubActivate <- AnyActivation
  MaxTries = 3
  MaxVersion = 3
  FactoryVersion = 1
  DefaultFloor = 1
  TrustedFloor = 2
  Manifests <- AllReleases
  Dead = {}
  Unhealthy = {2}
  OperatorCmds = {"install", "rollback", "mark-good"}
  StatusNames = "A"
  Overlap = TRUE
  MaxOps = 2
  MaxFaults = 1
  NoState = NoState
  Corrupt = Corrupt
SPECIFICATION Spec
INVARIANTS TypeOK FloorProven
PROPERTIES WritesAboveTrustedFloor
