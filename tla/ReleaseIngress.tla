---------------------------- MODULE ReleaseIngress ----------------------------
(***************************************************************************)
(* What lets evidence into a release: the operator evidence manifest       *)
(* (operator-evidence-ingress.py), the release ingress manifest            *)
(* (release-ingress.py), the annotation of the release tag                 *)
(* (validate-release-tag-binding.py) and validate-release-inputs.py, which *)
(* the preflight runs once and the tag workflow twice more.                *)
(*                                                                         *)
(* A document lies at the key <<kind, subject>>; the subject is a target,  *)
(* a scan or "all".  A workspace w is the directory a job works in: the    *)
(* documents w.docs, the downloaded build w.files and w.contract, and what *)
(* the preflight wrote: w.binding, w.graph, w.operator, w.ingress.         *)
(***************************************************************************)
EXTENDS BuildBinding

CONSTANTS IngressLife, ArtifactLife    \* days a manifest and an artifact last

ASSUME IngressAssumption == {IngressLife, ArtifactLife} \subseteq Nat

At(kind, ts) == {<<kind, t>> : t \in ts}
All(kind) == <<kind, "all">>

\* operator_required_evidence_paths.
RequiredPaths(v) ==
    LET ga(keys) == IF v \in Ga THEN keys ELSE {}
        released == Rows("release")
        hidden == Targets \ Rows("public") IN
    {All("audit-log"), All("registry")}
      \cup ga({All("roles"), All("retention")} \cup At("security", Scans))
      \cup At("qemu", released \cap Rows("qemu"))
      \cup At("lab", released \cap Rows("lab"))
      \cup ga(At("hardware", released \cap Rows("hardware")))
      \cup ga(At("acquisition", released \cap Rows("hardware")))
      \cup At("approval", released) \cup At("repro", released)
      \cup ga(At("signing", Rows("signing") \cap (released \cup hidden)))
      \cup ga(At("runtime", Rows("runtime") \cap hidden) \cup At("ota", Rows("ota") \cap hidden))

\* Targets with a directory under release-lab-input.
LabDirectories(docs) ==
    {k[2] : k \in {x \in DOMAIN docs : x[1] \in {"qemu", "lab", "hardware", "acquisition"}}}

\* What the preflight itself writes into the trees an operator may fill.
CollectedKeys(v) ==
    {All("governance"), All("snapshot"), All("check-runs")}
      \cup (IF v \in Ga THEN {} ELSE At("security", Scans))

\* collect_audit reads the operator's audit log and writes it out in its place,
\* indented and with sorted keys: the bytes are the operator's only if the export
\* was laid out so.
RewriteAuditLog(docs) ==
    [k \in DOMAIN docs |->
        IF k = All("audit-log") /\ "audit-layout" \notin Repairs
        THEN Over([layout |-> "rewritten"], docs[k])
        ELSE docs[k]]

\* collect-ci-check-evidence: one v1 report per scan, from the check runs of the
\* commit.  evidence_path is relative to the working directory, and is looked up
\* below release-security.
CollectCheck(scan, v, sha, run) ==
    [version |-> v, target |-> scan, sha |-> sha, run |-> run,
     results |-> Passed({"critical", "high"}), raw |-> Passed({"critical", "high"}),
     files |-> "raw-path" \in Repairs, shape |-> "ok", native |-> FALSE]

-------------------------------------------------------------------------------
(* operator-evidence-ingress.py *)

\* validate_audit_log: the replay of the operator's export found nothing.
AuditLogApproved(docs) ==
    /\ All("audit-log") \in DOMAIN docs
    /\ LET d == docs[All("audit-log")] IN
        /\ d.shape = "ok"
        /\ "replay" \in DOMAIN d.results
        /\ \A i \in DOMAIN d.results : d.results[i] = "passed"

\* validate_core_files: what is required is listed, and is of its schema.
CoreFiles(docs, listed, v) ==
    /\ RequiredPaths(v) \subseteq listed
    /\ AuditLogApproved(docs)
    /\ All("registry") \in DOMAIN docs
    /\ \A k \in RequiredPaths(v) \cap DOMAIN docs : docs[k].shape # "wrong-schema"

\* scan_evidence_files.  Every file below the allowed trees is one of the
\* operator's, the files collected by the preflight included.
Scanned(docs, v) ==
    IF "collected-files" \in Repairs THEN DOMAIN docs \ CollectedKeys(v) ELSE DOMAIN docs

CreateOperatorManifest(docs, v, sha, run, attempt, now) ==
    [version |-> v, sha |-> sha, run |-> run, attempt |-> attempt, files |-> docs,
     expires |-> now + IngressLife]

OperatorFiles(m, docs, v) ==
    /\ \A k \in DOMAIN m.files :
        /\ k \in DOMAIN docs
        /\ docs[k] = m.files[k]
        /\ docs[k].shape # "wrong-schema"
    /\ RequiredPaths(v) \subseteq DOMAIN m.files
    /\ Scanned(docs, v) = DOMAIN m.files

\* Mutant: as if the manifest's window were not checked again after it was staged.
ValidateOperatorManifestAnyTime(m, docs, v, sha, run, attempt, now) ==
    /\ <<m.version, m.sha, m.run, m.attempt>> = <<v, sha, run, attempt>>
    /\ OperatorFiles(m, docs, v)
    /\ CoreFiles(docs, DOMAIN m.files, v)

ValidateOperatorManifest(m, docs, v, sha, run, attempt, now) ==
    /\ m.expires > now
    /\ m.version = v
    /\ m.sha = sha
    /\ m.run = run
    /\ m.attempt = attempt
    /\ OperatorFiles(m, docs, v)
    /\ CoreFiles(docs, DOMAIN m.files, v)

-------------------------------------------------------------------------------
(* release-ingress.py *)

\* Every file the binding names and every input on disk, with its digest.
CreateIngress(w, id, now) ==
    [id |-> id, profile |-> w.binding.profile, version |-> w.binding.version,
     sha |-> w.binding.sha, run |-> w.binding.run, attempt |-> w.binding.attempt,
     expires |-> now + IngressLife, files |-> w.files, contract |-> w.contract,
     inputs |-> w.docs, graph |-> w.graph, operator |-> w.operator]

ValidateOperatorIngress(w, now) ==
    LET g == w.ingress IN
    ValidateOperatorManifest(w.operator, w.docs, g.version, g.sha, g.run, g.attempt, now)

IngressFiles(w) ==
    /\ w.ingress.files = w.files
    /\ w.ingress.contract = w.contract
    /\ \A k \in DOMAIN w.ingress.inputs :
        k \in DOMAIN w.docs /\ w.docs[k] = w.ingress.inputs[k]
    /\ All("dry-run") \in DOMAIN w.ingress.inputs <=> w.ingress.profile = "rc-evidence-dry-run"

ValidateIngress(w, v, sha, now) ==
    LET g == w.ingress IN
    /\ g.version = v
    /\ g.sha = sha
    /\ <<g.profile, g.version, g.sha, g.run, g.attempt>>
         = <<w.binding.profile, w.binding.version, w.binding.sha, w.binding.run, w.binding.attempt>>
    /\ g.expires > now
    /\ IngressFiles(w)
    /\ g.profile \in Strict => ValidateOperatorIngress(w, now)
    /\ g.profile = "production-candidate" =>
        ValidateSubjectGraph(w.graph, w.binding, w.docs, g.version, g.profile, g.sha, g.run)

-------------------------------------------------------------------------------
(* validate-release-inputs.py *)

Context(w, v, sha, run, now) ==
    [version |-> v, sha |-> sha, run |-> run, now |-> now,
     registry |-> w.docs[All("registry")], bound |-> BoundDigests(w.binding)]

GovernanceInput(w) == All("governance") \in DOMAIN w.docs /\ w.docs[All("governance")].passed

LabInputs(w, c) ==
    \A t \in LabRows(c.version) :
        <<"lab", t>> \in DOMAIN w.docs /\ ValidateLab(w.docs[<<"lab", t>>], c, t)

LabArtifact(w, t) ==
    IF <<"lab", t>> \in DOMAIN w.docs THEN {w.docs[<<"lab", t>>].artifact} ELSE {}

AcquisitionInputs(w, c) ==
    /\ LabDirectories(w.docs) # {}
    /\ \A t \in LabDirectories(w.docs) :
        /\ <<"acquisition", t>> \in DOMAIN w.docs
        /\ ValidateAcquisition(w.docs[<<"acquisition", t>>], LabArtifact(w, t), c, t)

SigningSessions(w, c) ==
    LET sessions == {k \in DOMAIN w.docs : k[1] = "hsm"} IN
    /\ sessions # {}
    /\ \A k \in sessions : HsmSessionReplay(w.docs[k], c, k[2])

SigningInput(w, c, t) ==
    LET ota == <<"ota", t>>
        outputs == IF "ota" \in Policy[t] /\ ota \in DOMAIN w.docs
                   THEN OtaSigningDigests(w.docs[ota]) ELSE <<>> IN
    /\ <<"signing", t>> \in DOMAIN w.docs
    /\ ValidateSigningManifest(w.docs[<<"signing", t>>], outputs, c, t)

HardwareInput(w, c, t) ==
    /\ {<<"hardware", t>>, <<"acquisition", t>>} \subseteq DOMAIN w.docs
    /\ ValidateHardwareSubject(w.docs[<<"hardware", t>>], w.docs[<<"acquisition", t>>], c, t)

OtaInput(w, c, t) ==
    <<"ota", t>> \in DOMAIN w.docs /\ ValidateOtaArtifacts(w.docs[<<"ota", t>>], c, t)

ProductionRows(w, c) ==
    /\ \A t \in Rows("signing") : SigningInput(w, c, t)
    /\ \A t \in Rows("hardware") : HardwareInput(w, c, t)
    /\ \A t \in Rows("ota") : OtaInput(w, c, t)

ProductionGovernance(w, c) ==
    /\ All("roles") \in DOMAIN w.docs /\ ValidateRoleBindings(w.docs[All("roles")], c)
    /\ All("retention") \in DOMAIN w.docs /\ ValidateRetention(w.docs[All("retention")], c)

ReleaseRows(w, c) ==
    \A t \in Rows("release") :
        /\ "qemu" \in Policy[t] =>
            <<"qemu", t>> \in DOMAIN w.docs /\ ValidateQemu(w.docs[<<"qemu", t>>], c, t)
        /\ <<"approval", t>> \in DOMAIN w.docs /\ ValidateApproval(w.docs[<<"approval", t>>], c, t)
        /\ <<"repro", t>> \in DOMAIN w.docs /\ ValidateRepro(w.docs[<<"repro", t>>], c, t)

RuntimeInputs(w, c) ==
    \A t \in Rows("runtime") :
        <<"runtime", t>> \in DOMAIN w.docs /\ ValidateRuntimeSuite(w.docs[<<"runtime", t>>], c, t)

SecurityInputs(w, c) ==
    \A s \in Scans :
        <<"security", s>> \in DOMAIN w.docs
          /\ ValidateSecurityReport(w.docs[<<"security", s>>], c, s)

\* What only production-candidate asks for.
ProductionInputs(w, c, profile) ==
    /\ AcquisitionInputs(w, c)
    /\ ValidateSubjectGraph(w.graph, w.binding, w.docs, c.version, profile, c.sha, c.run)
    /\ SigningSessions(w, c)
    /\ ProductionRows(w, c)
    /\ ProductionGovernance(w, c)
    /\ RuntimeInputs(w, c)

\* main.  A dry run ends after the binding (and the ingress).
ValidateReleaseInputs(w, profile, v, sha, run, attempt, now) ==
    /\ ValidateBinding(w.binding, w.files, w.contract, profile, v, sha, run, attempt)
    /\ profile # "technical-dry-run" => ValidateIngress(w, v, sha, now)
    /\ profile \in Strict =>
        LET c == Context(w, v, sha, run, now) IN
        /\ GovernanceInput(w)
        /\ LabInputs(w, c)
        /\ profile = "production-candidate" => ProductionInputs(w, c, profile)
        /\ ReleaseRows(w, c)
        /\ SecurityInputs(w, c)

-------------------------------------------------------------------------------
(* validate-release-tag-binding.py *)

ProfileFor(v) == IF v \in Ga THEN "production-candidate" ELSE "release-candidate"

\* The annotation is in a signed tag object; it names the tag and its commit.
ParseTag(tag) == tag.version = tag.name /\ tag.sha = tag.commit

\* The preflight run the annotation names, and the one artifact of the name the
\* version and the commit make.
ValidateRun(tag, a, now) ==
    /\ a.id = tag.preflight
    /\ a.head = tag.sha
    /\ a.profile = ProfileFor(tag.version)
    /\ a.version = tag.version
    /\ a.sha = tag.sha
    /\ now < a.at + ArtifactLife

\* ingress_manifest_sha256; a manifest names the run that wrote it.
ValidateIngressDigest(tag, w) == w.ingress.id = tag.ingress

CrossBinding(tag, w) ==
    \A m \in {[version |-> x.version, sha |-> x.sha, run |-> x.run, attempt |-> x.attempt,
               profile |-> x.profile] : x \in {w.binding, w.ingress}} :
        /\ m.version = tag.version
        /\ m.sha = tag.sha
        /\ m.run = tag.run
        /\ m.attempt = tag.attempt
        /\ m.profile = ProfileFor(tag.version)

===============================================================================
