CONSTANTS
  Backend = "grub"
  GrubActivate <- AnyActivation
  MaxTries = 3
  MaxVersion = 4
  FactoryVersion = 1
  DefaultFloor = 1
  TrustedFloor = 0
  Manifests <- AllReleases
  Dead = {3}
  Unhealthy = {2}
  OperatorCmds = {"install", "rollback"}
  StatusNames = "pending"
  Overlap = FALSE
  MaxOps = 3
  MaxFaults = 0
  NoState = NoState
  Corrupt = Corrupt
SPECIFICATION FairSpec
INVARIANTS MarkedVersionRan PendingIsInstalled
PROPERTIES ImplementsABUpdate FallsBackOrRetries
