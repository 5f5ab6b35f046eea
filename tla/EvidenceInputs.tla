---------------------------- MODULE EvidenceInputs ----------------------------
(***************************************************************************)
(* The evidence a release needs, as the tools under scripts/evidence write *)
(* it and as the validators that validate-release-inputs.py runs read it.  *)
(*                                                                         *)
(* A document is a record.  `results' maps what was checked to its outcome *)
(* and `raw' maps it to what the raw evidence beside the document (a       *)
(* signed payload, a log, a scanner's report) says; `files' tells whether  *)
(* the files the document refers to have the digests it records; `shape'   *)
(* collapses the checks of schemas, types, placeholders and safe paths.    *)
(* Digests are records: equal records are equal bytes.  One name in a set  *)
(* of results stands for all the checks of its class in the source.        *)
(***************************************************************************)
EXTENDS Naturals, Sequences, FiniteSets

CONSTANTS
    Targets,       \* rows of the build matrix
    Policy,        \* what the matrix and the evidence contract say of a target
    Scans,         \* security_scans of the matrix
    Ga,            \* the versions without a prerelease part
    AdapterOrder,  \* REQUIRED_EVENT_ORDER of the station adapters
    CalibrationLife, RetentionLife, RiskLife

Flags == {"release", "lab", "hardware", "gate", "signing", "ota", "public",
          "qemu", "runtime", "scan", "x86", "usb"}

ASSUME EvidenceAssumption ==
    /\ Policy \in [Targets -> SUBSET Flags]
    /\ AdapterOrder \in Seq(STRING)
    /\ {CalibrationLife, RetentionLife, RiskLife} \subseteq Nat

Rows(flag) == {t \in Targets : flag \in Policy[t]}

\* ci/build-matrix.yml releases a row that is tested in a lab.
ASSUME MatrixAssumption == Rows("release") \cap Rows("lab") # {}

\* Bytes of the file `name' of row t, as run o.run last made them.
Digest(name, t, o) == [name |-> name, target |-> t, run |-> o.run, made |-> o.made[t]]
Adapters == {AdapterOrder[i] : i \in 1..Len(AdapterOrder)}

Passed(items) == [i \in items |-> "passed"]

\* d, and what e has beside it.
Over(d, e) == [k \in DOMAIN d \cup DOMAIN e |-> IF k \in DOMAIN d THEN d[k] ELSE e[k]]

\* Everything a document reports has passed, and nothing required is missing.
AllPassed(d, required) ==
    /\ d.shape = "ok"
    /\ d.files
    /\ required \subseteq DOMAIN d.results
    /\ \A i \in DOMAIN d.results : d.results[i] = "passed"

\* version, target, source_sha and source_run_id (and subject_id, made of them).
SameSubject(d, c, t) ==
    /\ d.version = c.version
    /\ d.target = t
    /\ d.sha = c.sha
    /\ d.run = c.run

\* What is common to the documents an operator collects for target t.  The
\* origin o says for which version, from which attempt of which run, with which
\* bytes (o.made: the attempt that made each row) and when it was collected.
Collected(t, o, items) ==
    [version |-> o.version, target |-> t, sha |-> o.sha, run |-> o.run,
     results |-> Passed(items), raw |-> Passed(items), files |-> TRUE, shape |-> "ok"]

-------------------------------------------------------------------------------
(* The station registry and the lab evidence *)

\* The registry of one station, under release-governance/<version>/.
StationRegistry(o) ==
    Over(Collected("all", o, {}),
         [station |-> "station", fixture |-> "fixture", key |-> "station-key",
          targets |-> Rows("lab") \cup Rows("hardware") \cup Rows("qemu"), storage |-> {"disk"},
          calibration |-> o.at + CalibrationLife,
          adapters |-> [r \in Adapters |-> "adapter"]])

LabItems(t, v) ==
    {"device-check"}
      \cup (IF "x86" \in Policy[t] THEN {"x86-check"} ELSE {})
      \cup (IF "usb" \in Policy[t] THEN {"usb-negative"} ELSE {})
      \cup (IF "x86" \in Policy[t] /\ v \in Ga THEN {"x86-negative"} ELSE {})

\* suderra-lab collect: the readback has to be the artifact; the station signs
\* the payload, whose results become `raw'.
SignStationBundle(d) == [d EXCEPT !.raw = d.results]

CollectLab(t, o) ==
    Over(SignStationBundle(Collected(t, o, LabItems(t, o.version))),
         [artifact |-> Digest("raw", t, o), readback |-> Digest("raw", t, o),
          station |-> "station", fixture |-> "fixture", key |-> "station-key",
          storage |-> "disk"])

CheckStationRegistry(d, c) ==
    LET r == c.registry IN
    /\ r.shape = "ok"
    /\ d.station = r.station
    /\ d.fixture = r.fixture
    /\ d.key = r.key
    /\ "*" \notin r.targets /\ d.target \in r.targets
    /\ r.calibration > c.now
    /\ "*" \notin r.storage /\ d.storage \in r.storage

\* Mutant: as if the station's payload were not read back from its signed bundle.
CheckStationBundleUnread(d, c) == CheckStationRegistry(d, c)

\* The signed bundle holds the digest of the unsigned payload.
CheckStationBundle(d, c) ==
    /\ CheckStationRegistry(d, c)
    /\ d.raw = d.results

LabDevices(d) == d.readback = d.artifact

LabChecks(d, c, t) == AllPassed(d, LabItems(t, c.version))

ValidateLab(d, c, t) ==
    /\ SameSubject(d, c, t)
    /\ LabDevices(d)
    /\ LabChecks(d, c, t)
    /\ CheckStationBundle(d, c)

\* Rows whose lab evidence validate-matrix demands.
LabRows(v) ==
    {t \in Targets :
        \/ {"release", "lab"} \subseteq Policy[t]
        \/ v \in Ga /\ {"hardware", "gate"} \subseteq Policy[t]}

-------------------------------------------------------------------------------
(* Station acquisition and the hardware subject *)

\* station-acquisition create: the adapters are run one after the other.
CreateAcquisition(t, o) ==
    Over(Collected(t, o, Adapters),
         [artifact |-> Digest("raw", t, o), readback |-> Digest("raw", t, o),
          storage |-> "disk", station |-> "station", registry |-> StationRegistry(o),
          order |-> AdapterOrder, adapters |-> [r \in Adapters |-> "adapter"]])

ValidateRegistryBinding(d, c) ==
    /\ d.station = c.registry.station
    /\ "*" \notin c.registry.targets /\ d.target \in c.registry.targets
    /\ "*" \notin c.registry.storage
    /\ \A r \in DOMAIN d.results :
        /\ r \in DOMAIN c.registry.adapters
        /\ d.adapters[r] = c.registry.adapters[r]

\* First occurrences of the required roles, in the required order.
InOrder(d) ==
    LET first(r) == CHOOSE i \in 1..Len(d.order) :
                        /\ d.order[i] = r
                        /\ \A j \in 1..(i - 1) : d.order[j] # r
        seen == {i \in 1..Len(AdapterOrder) : \E j \in 1..Len(d.order) : d.order[j] = AdapterOrder[i]}
    IN  \A i, j \in seen : i < j => first(AdapterOrder[i]) < first(AdapterOrder[j])

\* The expected artifact is the one the target's lab.json names, when there is
\* one; `expected' holds it.
ValidateAcquisition(d, expected, c, t) ==
    /\ SameSubject(d, c, t)
    /\ expected # {} => d.artifact \in expected
    /\ d.registry = c.registry
    /\ ValidateRegistryBinding(d, c)
    /\ AllPassed(d, Adapters)
    /\ d.readback = d.artifact
    /\ InOrder(d)

CollectHardware(t, o) ==
    Over(Collected(t, o, {}),
         [readback |-> Digest("raw", t, o), rawImage |-> Digest("raw", t, o),
          compressed |-> Digest("xz", t, o), event |-> "readback",
          station |-> "station", fixture |-> "fixture", storage |-> "disk",
          registry |-> StationRegistry(o)])

StationMeasurements(acq) ==
    [events |-> DOMAIN acq.results,
     readbacks |-> IF "readback" \in DOMAIN acq.results THEN {acq.readback} ELSE {},
     storage |-> IF "storage" \in DOMAIN acq.results THEN {acq.storage} ELSE {}]

\* hardware-subject.json holds no results, and refers to no file.
ValidateHardwareSubject(d, acq, c, t) ==
    LET m == StationMeasurements(acq) IN
    /\ SameSubject(d, c, t) /\ d.shape = "ok"
    /\ c.bound[t] # {} => {d.compressed, d.readback} \cap c.bound[t] # {}
    /\ d.readback \in {d.rawImage, d.compressed}
    /\ SameSubject(acq, c, t)
    /\ d.station = acq.station
    /\ d.registry = acq.registry
    /\ d.readback = acq.artifact
    /\ d.event \in m.events
    /\ m.readbacks # {} => d.readback \in m.readbacks
    /\ m.storage # {} => d.storage \in m.storage
    /\ d.station = c.registry.station
    /\ d.fixture = c.registry.fixture
    /\ d.storage \in c.registry.storage

-------------------------------------------------------------------------------
(* Signing: OTA artifacts, the signing manifest, HSM sessions *)

OtaRoles == {"rauc-bundle", "os-update-manifest"}
PublicRoles == {"release-artifact"}

\* produce-ota-artifacts create.  No file is referred to by a digest.
ProduceOta(t, o) ==
    Over(Collected(t, o, {"ota_contract"} \cup OtaRoles),
         [outputs |-> [r \in OtaRoles |-> Digest(r, t, o)]])

ValidateOtaArtifacts(d, c, t) ==
    /\ SameSubject(d, c, t) /\ d.shape = "ok"
    /\ "ota" \in Policy[t]
    /\ DOMAIN d.results = {"ota_contract"} \cup OtaRoles
    /\ d.results["ota_contract"] = "passed"

OtaSigningDigests(ota) == ota.outputs

ExpectedSigningRoles(t) ==
    (IF "ota" \in Policy[t] THEN OtaRoles ELSE {})
      \cup (IF "public" \in Policy[t] THEN PublicRoles ELSE {})

CollectSigning(t, o) ==
    LET roles == ExpectedSigningRoles(t) IN
    Over(Collected(t, o, roles),
         [outputs |-> [r \in roles |-> Digest(IF r \in OtaRoles THEN r ELSE "xz", t, o)]])

\* `outputs' are the digests the OTA artifacts give for their two roles.  The
\* manifest's files are not opened.
ValidateSigningManifest(d, outputs, c, t) ==
    /\ SameSubject(d, c, t) /\ d.shape = "ok"
    /\ DOMAIN d.results # {}
    /\ ExpectedSigningRoles(t) \subseteq DOMAIN d.results
    /\ \A r \in DOMAIN d.results :
        /\ d.results[r] = "passed"
        /\ r = "release-artifact" /\ c.bound[t] # {} => d.outputs[r] \in c.bound[t]
        /\ r \in DOMAIN outputs => d.outputs[r] = outputs[r]

\* An HSM session names no version, commit or run: its artifacts' digests do.
CollectHsm(t, o) ==
    Over(Collected(t, o, {"artifact-signature"}),
         [artifact |-> Digest("xz", t, o), started |-> o.at, signed |-> o.at,
          expires |-> o.at + 1])

HsmSessionValid(d) == d.started <= d.signed /\ d.signed <= d.expires /\ d.shape = "ok"

\* The signatures are verified again, over the files the session names.
HsmCryptoReplay(d) ==
    /\ d.files
    /\ DOMAIN d.results # {}
    /\ \A i \in DOMAIN d.raw : d.raw[i] = "passed"

HsmSessionReplay(d, c, t) ==
    /\ HsmSessionValid(d)
    /\ HsmCryptoReplay(d)
    /\ d.artifact \in c.bound[t]

-------------------------------------------------------------------------------
(* Governance roles, retention, approval, reproducibility *)

CollectRoles(t, o) == Collected(t, o, {"release-owner", "security-owner"})

\* Bound to the version only; no file is referred to.
ValidateRoleBindings(d, c) ==
    /\ d.version = c.version
    /\ d.shape = "ok"
    /\ {"release-owner", "security-owner"} \subseteq DOMAIN d.results
    /\ \A r \in DOMAIN d.results : d.results[r] = "passed"

\* produce-retention-manifest create.
ProduceRetention(t, o) ==
    Over(Collected(t, o, {"export", "replay-test"}), [retainUntil |-> o.at + RetentionLife])

ValidateRetention(d, c) ==
    /\ d.version = c.version /\ d.sha = c.sha /\ d.run = c.run
    /\ d.shape = "ok"
    /\ {"export", "replay-test"} \subseteq {i \in DOMAIN d.results : d.results[i] = "passed"}
    /\ d.retainUntil > c.now

\* An approval with a residual risk holds until the risk's acceptance expires.
CollectApproval(t, o) ==
    Over(Collected(t, o, {"release-owner", "maintainer", "decision"}),
         [risk |-> "accepted", expires |-> o.at + RiskLife])

\* Bound to the commit, not to the run.
ValidateApproval(d, c, t) ==
    LET roles == DOMAIN d.results \ {"decision"} IN
    /\ d.version = c.version /\ d.target = t /\ d.sha = c.sha
    /\ d.shape = "ok"
    /\ "release-owner" \in roles
    /\ roles \cap {"maintainer", "security-compliance"} # {}
    /\ "decision" \in DOMAIN d.results /\ d.results["decision"] = "passed"
    /\ d.risk = "accepted" => d.expires > c.now

CollectRepro(t, o) == Collected(t, o, {"artifact-comparison"})

\* Mutant: as if the outcome of a comparison were not looked at.
ValidateReproAnyOutcome(d, c, t) ==
    SameSubject(d, c, t) /\ d.shape = "ok" /\ d.files /\ DOMAIN d.results # {}

\* Every comparison listed matches; there has to be one.
ValidateRepro(d, c, t) ==
    /\ SameSubject(d, c, t)
    /\ AllPassed(d, {})
    /\ DOMAIN d.results # {}

-------------------------------------------------------------------------------
(* Security reports, QEMU evidence, the production runtime suite *)

\* The results of a scan are the severities that must not occur.
CollectScan(scan, o) ==
    Over(Collected(scan, o, {"critical", "high"}), [native |-> o.version \in Ga])

SeverityCounts(d) == d.raw

ValidateRawReport(d) == SeverityCounts(d) = d.results

\* A v1 report is believed once its raw file has the recorded digest; the
\* counts of a v2 report are computed again from it.
ValidateSecurityReport(d, c, scan) ==
    /\ SameSubject(d, c, scan)
    /\ AllPassed(d, {})
    /\ d.native => ValidateRawReport(d)
    /\ c.version \in Ga => d.native

QemuItems(v) == {"boot", "rootfs"} \cup (IF v \in Ga THEN {"secure-boot"} ELSE {})

\* The facts of the guest come from the semantic log.
CollectQemu(t, o) ==
    Over(Collected(t, o, QemuItems(o.version)),
         [image |-> Digest("raw", t, o), clean |-> TRUE,
          facts |-> Passed(QemuItems(o.version))])

ValidateTermination(d) == d.clean

ValidateProductionFacts(d) == \A i \in QemuItems(d.version) :
    i \in DOMAIN d.facts /\ d.facts[i] = "passed"

\* Mutant: as if the image's digest were recorded and not compared.
QemuBindingAnyImage(d, c, t) == d.version = c.version /\ d.target = t /\ d.sha = c.sha

\* Bound to the commit and to the image's bytes, not to the run.
QemuBinding(d, c, t) ==
    /\ d.version = c.version /\ d.target = t /\ d.sha = c.sha
    /\ d.image \in {x \in c.bound[t] : x.name = "raw"}

SemanticLog(d) == d.facts = d.raw

ValidateQemu(d, c, t) ==
    /\ QemuBinding(d, c, t)
    /\ ValidateTermination(d)
    /\ AllPassed(d, QemuItems(c.version))
    /\ SemanticLog(d)
    /\ c.version \in Ga => ValidateProductionFacts(d)

Scenarios == {"signed-boot", "rollback"}

CollectRuntime(t, o) ==
    Over(Collected(t, o, Scenarios), [attempt |-> o.attempt, image |-> Digest("raw", t, o)])

\* What the serial log and the guest's facts say of a scenario.
ObservedOutcome(d, s) == d.raw[s]

ValidateScenario(d, s) == d.results[s] = "passed" /\ ObservedOutcome(d, s) = d.results[s]

\* The attempt and the image digests it holds are not compared with anything:
\* validate-release-inputs.py passes no expectation for them.
ValidateRuntimeSuite(d, c, t) ==
    /\ SameSubject(d, c, t)
    /\ d.shape = "ok" /\ d.files
    /\ DOMAIN d.results = Scenarios
    /\ \A s \in Scenarios : ValidateScenario(d, s)

===============================================================================
