----------------------------- MODULE BuildBinding -----------------------------
(***************************************************************************)
(* From the bytes of an Image Build run to the release inputs bound to     *)
(* them: the image build contract (scripts/ci/image-build-contract.py),    *)
(* the release input binding and the release subject graph                 *)
(* (prepare-release-inputs.py), and their validation                       *)
(* (validate-release-inputs.py, evidence_contract.py).                     *)
(*                                                                         *)
(* A run's artifacts are rows and the installers.  `made' maps each part   *)
(* to the attempt that last built it: a rerun of failed jobs builds some   *)
(* parts again under the same artifact names.  The digest of a document is *)
(* the document.                                                           *)
(***************************************************************************)
EXTENDS EvidenceInputs

CONSTANT Repairs   \* repairs of the pipeline that are assumed; {} is the code

RepairNames == {"collected-files", "raw-path", "artifact-path", "audit-layout"}

ASSUME RepairAssumption == Repairs \subseteq RepairNames

Installers == "installers"

ASSUME PartAssumption == Installers \notin Targets   \* the artifact name of no row

Parts == Rows("release") \cup {Installers}

\* expected_artifacts and build logs of a row; the installers and checksums.
Names(p) == IF p = Installers THEN {"installer"} ELSE {"raw", "xz", "build-evidence"}

ExpectedKeys == UNION {{<<p, n>> : n \in Names(p)} : p \in Parts}

\* What is on disk after the artifacts of a run have been downloaded.
Files(run, made) ==
    [k \in ExpectedKeys |-> [name |-> k[2], target |-> k[1], run |-> run, made |-> made[k[1]]]]

-------------------------------------------------------------------------------
(* image-build-contract *)

CreateContract(sha, run, attempt, made) ==
    [sha |-> sha, run |-> run, attempt |-> attempt, files |-> Files(run, made)]

\* Mutant: as if the attempt were recorded and not compared.
ValidateContractAnyAttempt(contract, disk, sha, run, attempt) ==
    /\ contract.run = run
    /\ contract.sha = sha
    /\ \A k \in DOMAIN contract.files : k \in DOMAIN disk /\ disk[k] = contract.files[k]
    /\ ExpectedKeys \subseteq DOMAIN contract.files

ValidateContract(contract, disk, sha, run, attempt) ==
    /\ contract.run = run
    /\ contract.attempt = attempt
    /\ contract.sha = sha
    /\ \A k \in DOMAIN contract.files : k \in DOMAIN disk /\ disk[k] = contract.files[k]
    /\ ExpectedKeys \subseteq DOMAIN contract.files

-------------------------------------------------------------------------------
(* The release input binding *)

Profiles == {"technical-dry-run", "rc-evidence-dry-run", "release-candidate",
             "production-candidate"}
Strict == {"release-candidate", "production-candidate"}

ProfileAllowed(profile, v) ==
    /\ profile \in {"rc-evidence-dry-run", "release-candidate"} => v \notin Ga
    /\ profile = "production-candidate" => v \in Ga

\* prepare-release-inputs plan: the digests of what is on disk, all of it.
BindingPayload(profile, v, sha, run, attempt, disk, contract) ==
    [profile |-> profile, version |-> v, sha |-> sha, run |-> run, attempt |-> attempt,
     artifacts |-> [k \in {x \in DOMAIN disk : x[2] \in {"raw", "xz"}} |-> disk[k]],
     evidence |-> [k \in {x \in DOMAIN disk : x[2] = "build-evidence"} |-> disk[k]],
     installers |-> [k \in {x \in DOMAIN disk : x[2] = "installer"} |-> disk[k]],
     contract |-> contract]

BindingHeader(b, profile, v, sha, run, attempt) ==
    /\ b.version = v
    /\ b.profile = profile
    /\ b.sha = sha
    /\ b.run = run
    /\ b.attempt = attempt

\* Exactly the expected names, each with the digest of the file on disk.
Measured(entries, names, disk) ==
    /\ DOMAIN entries = {k \in ExpectedKeys : k[2] \in names}
    /\ \A k \in DOMAIN entries : k \in DOMAIN disk /\ entries[k] = disk[k]

ArtifactBindings(b, disk)      == Measured(b.artifacts, {"raw", "xz"}, disk)
BuildEvidenceBindings(b, disk) == Measured(b.evidence, {"build-evidence"}, disk)
InstallerBindings(b, disk)     == Measured(b.installers, {"installer"}, disk)
ContractBinding(b, contract)   == b.contract = contract

ValidateBinding(b, disk, contract, profile, v, sha, run, attempt) ==
    /\ BindingHeader(b, profile, v, sha, run, attempt)
    /\ ArtifactBindings(b, disk)
    /\ BuildEvidenceBindings(b, disk)
    /\ InstallerBindings(b, disk)
    /\ ContractBinding(b, contract)

\* Mutant: as if only the compressed images were looked up.
BoundDigestsCompressed(b) ==
    [t \in Targets |->
        {b.artifacts[k] : k \in {x \in DOMAIN b.artifacts : x[1] = t /\ x[2] = "xz"}}]

\* binding_artifact_refs_for_target: the digests bound for each row.
BoundDigests(b) ==
    [t \in Targets |-> {b.artifacts[k] : k \in {x \in DOMAIN b.artifacts : x[1] = t}}]

-------------------------------------------------------------------------------
(* The release subject graph *)

\* A document that is not there.
None == [none |-> TRUE]
DocAt(docs, k) == IF k \in DOMAIN docs THEN docs[k] ELSE None

SubjectRows == Rows("gate") \cup Rows("public")

\* Evidence nodes of row t: the documents, whether each is required.
NodeKeys(t) ==
    (IF "runtime" \in Policy[t] THEN {<<"runtime", t>>} ELSE {})
      \cup (IF "signing" \in Policy[t] THEN {<<"signing", t>>} ELSE {})
      \cup (IF "hardware" \in Policy[t] THEN {<<"hardware", t>>, <<"registry", "all">>} ELSE {})
      \cup (IF "scan" \in Policy[t] THEN {<<"security", s>> : s \in Scans} ELSE {})
      \cup (IF "ota" \in Policy[t] THEN {<<"ota", t>>} ELSE {})
      \cup (IF "gate" \in Policy[t]
            THEN {<<"roles", "all">>, <<"retention", "all">>, <<"governance", "all">>,
                  <<"repro", t>>}
            ELSE {})

RequiredNodes(t, profile) ==
    {k \in NodeKeys(t) : profile = "production-candidate" \/ k[1] = "repro"}

\* The binding gives the graph's image digests, the disk those of the documents.
SubjectGraphPayload(b, docs) ==
    [version |-> b.version, profile |-> b.profile, sha |-> b.sha, run |-> b.run,
     images |-> BoundDigests(b), binding |-> b,
     nodes |-> [t \in SubjectRows |->
                   [k \in RequiredNodes(t, b.profile) |-> DocAt(docs, k)]]]

\* raw_image_sha256 and compressed_artifact_sha256 of a row.
SubjectImages(g, b, t) ==
    /\ \E x \in g.images[t] : x.name = "raw"
    /\ \E x \in g.images[t] : x.name = "xz" /\ x \in BoundDigests(b)[t]

\* The paths of the image nodes are relative to the artifact directory, and are
\* looked up in the input directory: no file is found there.
ImageNodesFound == "artifact-path" \in Repairs

ValidateSubjectGraph(g, b, docs, v, profile, sha, run) ==
    /\ g.version = v
    /\ g.profile = profile
    /\ g.sha = sha
    /\ g.run = run
    /\ SubjectRows \subseteq DOMAIN g.nodes
    /\ \A t \in DOMAIN g.nodes :
        /\ SubjectImages(g, b, t)
        /\ \A k \in DOMAIN g.nodes[t] : k \in DOMAIN docs /\ g.nodes[t][k] = docs[k]
    /\ g.binding = b
    /\ ImageNodesFound

===============================================================================
