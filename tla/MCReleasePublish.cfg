\* A promoted file, a payload signature and a generated file, two faults, three
\* attempts, reruns of the failed job or of all after the documented clean-up.
SPECIFICATION FairSpec
CONSTANTS
    Bound = {"release-ingress-manifest.json"}
    Fresh = {"sbom"}
    PayloadSig = {"payload-manifest.sig"}
    Occurs = {1, 2, 3}
    Reruns = {"failed", "all"}
    Careful = TRUE
    Repairs = {"ingress-identity", "extra-subjects", "manifest-attestation"}
    MaxAttempts = 3
    MaxFaults = 2
INVARIANTS TypeOK PublicIsAcceptable
PROPERTIES ImplementsLifecycle EventuallyPublic
CHECK_DEADLOCK FALSE
