\* The code as it is (no repairs).
CONSTANTS
    Targets <- MCTargets
    Policy <- MCPolicy
    AdapterOrder <- MCAdapterOrder
    Scans = {"trivy"}
    Versions = {"v1-rc", "v1"}
    Ga = {"v1"}
    Controls = {"branch"}
    PolicyChanges = {2}
    Pauses = {1, 2}
    Repairs = {}
    CalibrationLife = 2
    RetentionLife = 2
    RiskLife = 2
    IngressLife = 1
    ArtifactLife = 2
    DriftLife = 1
    MaxCommit = 2
    MaxAttempt = 2
    MaxBundles = 2
    MaxPreflights = 2
    MaxDrift = 2
    MaxUpsets = 1
SPECIFICATION Spec
INVARIANT GoodEvidencePasses
CHECK_DEADLOCK FALSE
