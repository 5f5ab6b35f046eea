\* One target of each kind (MCReleaseGate), a candidate and a production version,
\* two commits, attempts, bundles, preflights and drift runs, two upsets, and the
\* four repairs without which no strict preflight passes.
CONSTANTS
    Targets <- MCTargets
    Policy <- MCPolicy
    AdapterOrder <- MCAdapterOrder
    Scans = {"trivy"}
    Versions = {"v1-rc", "v1"}
    Ga = {"v1"}
    Controls = {"branch", "environment"}
    PolicyChanges = {2}
    Pauses = {1, 2}
    Repairs = {"collected-files", "raw-path", "artifact-path", "audit-layout"}
    CalibrationLife = 2
    RetentionLife = 2
    RiskLife = 2
    IngressLife = 1
    ArtifactLife = 2
    DriftLife = 1
    MaxCommit = 2
    MaxAttempt = 2
    MaxBundles = 2
    MaxPreflights = 2
    MaxDrift = 2
    MaxUpsets = 2
SPECIFICATION Spec
INVARIANTS
    TypeOK
    AcceptedEvidenceHolds
    RawEvidenceAgrees
    BytesArePromoted
    PromotedIsOneBuild
    NothingExpired
    GovernanceWasCompliant
    GoodEvidencePasses
CHECK_DEADLOCK FALSE
