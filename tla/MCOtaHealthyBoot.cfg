CONSTANTS
  Backend = "grub"
  GrubActivate <- AnyActivation
  MaxTries = 3
  MaxVersion = 3
  FactoryVersion = 1
  DefaultFloor = 1
  TrustedFloor = 0
  Manifests <- AllReleases
  Dead = {}
  Unhealthy = {}
  OperatorCmds = {}
  StatusNames = "pending"
  Overlap = TRUE
  MaxOps = 0
  MaxFaults = 0
  NoState = NoState
  Corrupt = Corrupt
SPECIFICATION Spec
INVARIANTS HealthyBootStaysBootable
