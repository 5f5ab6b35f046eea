\* The workflow as it is, without faults.
SPECIFICATION FairSpec
CONSTANTS
    Bound = {"release-ingress-manifest.json"}
    Fresh = {"sbom"}
    PayloadSig = {"payload-manifest.sig"}
    Occurs = {1, 2, 3}
    Reruns = {"failed", "all"}
    Careful = TRUE
    Repairs = {}
    MaxAttempts = 2
    MaxFaults = 0
PROPERTIES EventuallyPublic
CHECK_DEADLOCK FALSE
