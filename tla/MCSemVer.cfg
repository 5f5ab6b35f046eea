CONSTANTS
  None = None
  LongMax = 9999999
  Identifiers <- MCIdentifiers
  Versions <- MCVersions
SPECIFICATION Spec
INVARIANTS FloorNeverComesRound InstallerAgrees KeyOrdersCores
