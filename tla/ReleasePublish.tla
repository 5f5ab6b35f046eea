---------------------------- MODULE ReleasePublish ----------------------------
(***************************************************************************)
(* The release workflow from the staged bytes to the public release: the   *)
(* jobs release-stage, release-sign and publish of release.yml, the        *)
(* manifests and records they write and check (release-publication-        *)
(* manifest.py, machine-verification-record.py, post-publication-          *)
(* verification.py, release-publication-proof-manifest.py), failures of    *)
(* the jobs and of uploads, reruns, and the clean-up an operator does.     *)
(*                                                                         *)
(* Bytes are identified by what they were made from: the file they are of, *)
(* the workflow attempt that made them, and the files whose digests they   *)
(* hold.  Equal records stand for equal SHA-256 digests.  A file and the   *)
(* pair of its .sig and .cert are the two keys <<n, "file">> and           *)
(* <<n, "side">> of a directory.                                           *)
(***************************************************************************)
EXTENDS Naturals

CONSTANTS
    Bound,        \* files promoted from the preflight: images, installers
    Fresh,        \* files the stage job generates: SBOM, release-assets.json, ...
    PayloadSig,   \* promoted *.payload-manifest.sig files
    Occurs,       \* attempt numbers that occur elsewhere in a provenance predicate
    Reruns,       \* kinds of rerun: of the "failed" jobs, of "all" jobs
    Careful,      \* proof assets are removed before a rerun, as documented
    Repairs,      \* changes to the workflow assumed; {} is the code as it is
    MaxAttempts,
    MaxFaults

VARIABLES
    attempt,      \* GITHUB_RUN_ATTEMPT
    pc,           \* the step the workflow is at
    staged,       \* artifact staged-release-<version>
    bundle,       \* artifact signed-release-<version>
    attestations, \* the provenance statements GitHub holds
    status,       \* of the GitHub release: "none", "draft", "public"
    assets,       \* its assets
    dir,          \* the directory the running job works on
    proof,        \* post-publication-verification/
    faults        \* faults so far

vars == <<attempt, pc, staged, bundle, attestations, status, assets, dir,
          proof, faults>>

-------------------------------------------------------------------------------
(* Files, directories and signatures *)

Archive       == "release-evidence.tar.zst"
Manifest      == "release-publication-manifest.json"
Record        == "release-post-publication-verification.json"
Ingress       == "release-ingress-manifest.json"
RawStatements == "attestation-json"                         \* of the listed files
ManifestStatement == "release-publication-manifest.json.json"
ProofManifest == "release-publication-proof-manifest.json"

\* Without these the workflow stops, whatever it is given:
\*   "ingress-identity"      the staged ingress manifest may carry the signature
\*                           release-sign has just made
\*   "extra-subjects"        a provenance statement may name more than the
\*                           release's files that are not signatures
\*   "manifest-attestation"  the attestation JSON of the publication manifest is
\*                           listed in the proof manifest
RepairNames == {"ingress-identity", "extra-subjects", "manifest-attestation"}

\* Promoted and generated files differ, the ingress manifest is a promoted one,
\* and none has a name the jobs give out.
ASSUME PublishAssumption ==
    /\ MaxAttempts \in Nat \ {0}
    /\ MaxFaults \in Nat
    /\ Occurs \subseteq Nat
    /\ Reruns \subseteq {"failed", "all"}
    /\ Careful \in BOOLEAN
    /\ Repairs \subseteq RepairNames
    /\ Ingress \in Bound
    /\ Bound \cap Fresh = {}
    /\ (Bound \cup Fresh \cup PayloadSig)
         \cap {Archive, Manifest, Record, RawStatements, ManifestStatement,
               ProofManifest} = {}

File(n) == <<n, "file">>
Side(n) == <<n, "side">>
Self    == {File(Manifest), Side(Manifest)}
ProofManifestKeys == {File(ProofManifest), Side(ProofManifest)}
ProofKeys == ProofManifestKeys \cup
    {File(Record), Side(Record), File(RawStatements), File(ManifestStatement)}

Empty == [k \in {} |-> {}]
Bytes(n, a, held) == [of |-> n, at |-> a, holds |-> held]
Only(d, keys) == [k \in DOMAIN d \cap keys |-> d[k]]
One(k, b) == [x \in {k} |-> b]

\* The files of d, and those of e that d has none of the same name for.
Over(d, e) == [k \in DOMAIN d \cup DOMAIN e |-> IF k \in DOMAIN d THEN d[k] ELSE e[k]]

\* Names that do not end in .sig or .cert.  A payload signature ends in .sig.
NonSide(d) == {k \in DOMAIN d : k[2] = "file" /\ k[1] \notin PayloadSig}

\* cosign sign-blob of every file in keys.
Sign(d, keys, a) ==
    Over([s \in {Side(k[1]) : k \in keys} |-> Bytes(s[1], a, Only(d, {File(s[1])}))], d)

\* cosign verify-blob.
SignatureValid(d, k) ==
    /\ Side(k[1]) \in DOMAIN d
    /\ d[Side(k[1])].holds = Only(d, {k})

\* "Validate signed release completeness": every file has its signature, and that
\* of the ingress manifest has to be the preflight's, made before any attempt.
SignedComplete(d) ==
    /\ \A k \in NonSide(d) : Side(k[1]) \in DOMAIN d
    /\ SignatureValid(d, File(Ingress))
    /\ d[Side(Ingress)].at = 0 \/ "ingress-identity" \in Repairs

-------------------------------------------------------------------------------
(* Provenance statements and the records made from them *)

\* attest-build-provenance: one statement with all the subjects.
Statement(d, keys, a) ==
    [attempt |-> a, subjects |-> {<<k, d[k]>> : k \in keys \cap DOMAIN d}]

\* gh attestation verify --format json.
StatementsFor(d, k) == {s \in attestations : <<k, d[k]>> \in s.subjects}

\* Mutant: as if only the invocation of the verifying attempt counted.
ProvenanceContextExact(s, a) == a = s.attempt

\* The predicate has to contain the attempt as a text, wherever it occurs.
ProvenanceContext(s, a) == a = s.attempt \/ a \in Occurs

AttestedSubjects(d) == {<<k, d[k]>> : k \in NonSide(d)}

VerifiedSubjects(d) == UNION {s.subjects : s \in UNION {StatementsFor(d, k) : k \in NonSide(d)}}

\* The three machine verification records, each of which must be created.
CreateMachineRecords(d, a) ==
    /\ NonSide(d) # {}
    /\ \A k \in NonSide(d) :
        /\ SignatureValid(d, k)
        /\ StatementsFor(d, k) # {}
        /\ \A s \in StatementsFor(d, k) : ProvenanceContext(s, a)
    /\ AttestedSubjects(d) \subseteq VerifiedSubjects(d)
    /\ \/ VerifiedSubjects(d) \subseteq AttestedSubjects(d)
       \/ "extra-subjects" \in Repairs

-------------------------------------------------------------------------------
(* The publication manifest *)

CreateManifest(d, a) == Bytes(Manifest, a, Only(d, DOMAIN d \ Self))

ValidateManifest(d) ==
    /\ Self \subseteq DOMAIN d
    /\ LET listed == d[File(Manifest)].holds IN
        /\ DOMAIN listed = DOMAIN d \ Self
        /\ \A k \in DOMAIN listed : listed[k] = d[k]
        /\ \A k \in NonSide(listed) : Side(k[1]) \in DOMAIN d
        /\ {File(Archive), Side(Archive)} \subseteq DOMAIN listed

\* Every published file is signed and attested.
Verifiable(d) ==
    \A k \in NonSide(d) : SignatureValid(d, k) /\ StatementsFor(d, k) # {}

-------------------------------------------------------------------------------
(* The post-publication record and the proof manifest *)

\* Mutant: as if the record were a copy of the publication manifest.
CreatePostPublicationRecordCopy(d, a) == d[File(Manifest)]

CreatePostPublicationRecord(d, a) ==
    Bytes(Record, a, Only(d, NonSide(d) \cup {File(Manifest)}))

\* What create_record demands of the downloaded release.
PostPublicationVerified(d, a) ==
    /\ ValidateManifest(d)
    /\ \A k \in NonSide(d) \ {File(Manifest)} :
        /\ StatementsFor(d, k) # {}
        /\ \A s \in StatementsFor(d, k) : ProvenanceContext(s, a)

\* The raw attestations the record refers to are those of the manifest's files.
ListedProof ==
    {File(Record), Side(Record), File(RawStatements)} \cup
    (IF "manifest-attestation" \in Repairs THEN {File(ManifestStatement)} ELSE {})

\* Every attestation JSON is copied beside the record and uploaded with it.
CreateProof(d, a) ==
    LET record == CreatePostPublicationRecord(d, a)
        made   == [k \in ProofKeys \ ProofManifestKeys |->
                      CASE k = File(Record) -> record
                        [] k = Side(Record) -> Bytes(Record, a, One(File(Record), record))
                        [] OTHER            -> Bytes(k[1], a, Empty)]
        listed == [k \in ListedProof \cup {File(Manifest)} |->
                      IF k = File(Manifest) THEN d[k] ELSE made[k]]
        proved == Bytes(ProofManifest, a, listed)
    IN  [k \in ProofKeys |->
            CASE k = File(ProofManifest) -> proved
              [] k = Side(ProofManifest) ->
                    Bytes(ProofManifest, a, One(File(ProofManifest), proved))
              [] OTHER -> made[k]]

ValidateProofManifest(d) ==
    /\ {File(ProofManifest), Side(ProofManifest), File(Manifest)} \subseteq DOMAIN d
    /\ LET listed == d[File(ProofManifest)].holds IN
        \A k \in DOMAIN listed : k \in DOMAIN d /\ listed[k] = d[k]

\* The base assets are taken out of the final draft by the manifest's names.
BaseAssets(d) ==
    Only(d, Self \cup (IF File(Manifest) \in DOMAIN d
                       THEN DOMAIN d[File(Manifest)].holds ELSE {}))

\* Mutant: as if the proof were not downloaded again after its upload.
FinalVerifiedBase(d) ==
    ValidateManifest(BaseAssets(d)) /\ Verifiable(BaseAssets(d))

\* The last check of the publish job: base assets, proof and nothing else.
FinalVerified(d) ==
    /\ ValidateManifest(BaseAssets(d))
    /\ Verifiable(BaseAssets(d))
    /\ ValidateProofManifest(d)
    /\ SignatureValid(d, File(Record))
    /\ SignatureValid(d, File(ProofManifest))
    /\ DOMAIN d = UNION {DOMAIN BaseAssets(d), DOMAIN d[File(ProofManifest)].holds,
                         ProofManifestKeys}

-------------------------------------------------------------------------------
(* The jobs *)

Init ==
    /\ attempt = 1
    /\ pc = "stage"
    /\ staged = Empty
    /\ bundle = Empty
    /\ attestations = {}
    /\ status = "none"
    /\ assets = Empty
    /\ dir = Empty
    /\ proof = Empty
    /\ faults = 0

\* release-stage: promoted files keep their bytes, the others are made anew.
StageRelease ==
    /\ pc = "stage"
    /\ staged' = [k \in {File(n) : n \in Bound \cup Fresh \cup PayloadSig} |->
                    Bytes(k[1], IF k[1] \in Fresh THEN attempt ELSE 0, Empty)]
    /\ pc' = "sign"
    /\ UNCHANGED <<attempt, bundle, attestations, status, assets, dir, proof, faults>>

\* release-sign: sign what is not a signature.
SignRelease ==
    /\ pc = "sign"
    /\ dir' = Sign(staged, NonSide(staged), attempt)
    /\ pc' = "attest"
    /\ UNCHANGED <<attempt, staged, bundle, attestations, status, assets, proof, faults>>

\* Validate the signed files, then attest what subject-path names.
AttestRelease ==
    /\ pc = "attest"
    /\ attestations' = attestations \cup
                         (IF SignedComplete(dir)
                          THEN {Statement(staged, DOMAIN staged, attempt)} ELSE {})
    /\ pc' = IF SignedComplete(dir) THEN "machine" ELSE "failed-sign"
    /\ UNCHANGED <<attempt, staged, bundle, status, assets, dir, proof, faults>>

MachineVerify ==
    /\ pc = "machine"
    /\ pc' = IF CreateMachineRecords(dir, attempt) THEN "package" ELSE "failed-sign"
    /\ UNCHANGED <<attempt, staged, bundle, attestations, status, assets, dir,
                   proof, faults>>

Archived(d, a) ==
    Sign(Over(One(File(Archive), Bytes(Archive, a, Empty)), d), {File(Archive)}, a)

WithManifest(d, a) ==
    Sign(Over(One(File(Manifest), CreateManifest(d, a)), d), {File(Manifest)}, a)

\* The evidence archive, then the publication manifest, with their signatures.
PackageRelease ==
    /\ pc = "package"
    /\ dir' = Archived(dir, attempt)
    /\ pc' = "manifest"
    /\ UNCHANGED <<attempt, staged, bundle, attestations, status, assets, proof, faults>>

SignManifest ==
    /\ pc = "manifest"
    /\ dir' = WithManifest(dir, attempt)
    /\ pc' = "bundle"
    /\ UNCHANGED <<attempt, staged, bundle, attestations, status, assets, proof, faults>>

\* Validated, attested and verified, the directory becomes the signed bundle.
BundleRelease ==
    /\ pc = "bundle"
    /\ attestations' = attestations \cup
            {Statement(dir, {File(Archive), Side(Archive)} \cup Self, attempt)}
    /\ bundle' = IF ValidateManifest(dir) THEN dir ELSE bundle
    /\ pc' = IF ValidateManifest(dir) THEN "guard" ELSE "failed-sign"
    /\ UNCHANGED <<attempt, staged, status, assets, dir, proof, faults>>

\* Mutant: as if any existing release were taken for a draft.
GuardExistingReleaseAny ==
    /\ pc = "guard"
    /\ pc' = "upload"
    /\ UNCHANGED <<attempt, staged, bundle, attestations, status, assets, dir,
                   proof, faults>>

\* publish refuses to touch a release it sees to be public.  A failure of
\* gh release view, whatever its reason, counts as "there is no release".
GuardExistingRelease ==
    /\ pc = "guard"
    /\ \/ /\ pc' = IF status = "public" THEN "failed-publish" ELSE "upload"
          /\ UNCHANGED faults
       \/ /\ faults < MaxFaults
          /\ faults' = faults + 1
          /\ pc' = "upload-unread"
    /\ UNCHANGED <<attempt, staged, bundle, attestations, status, assets, dir, proof>>

\* Uploads replace assets of the same name and leave the others.  An upload may
\* fail half way, or lose a file and report success.
UploadTo(d, next, failed) ==
    \/ /\ assets' = Over(d, assets)
       /\ pc' = next
       /\ UNCHANGED faults
    \/ /\ faults < MaxFaults
       /\ faults' = faults + 1
       /\ \E kept \in SUBSET DOMAIN d : assets' = Over(Only(d, kept), assets)
       /\ pc' \in {next, failed}

\* The release is created, or the existing one is made, a draft.
CreateRelease ==
    /\ pc \in {"upload", "upload-unread"}
    /\ UploadTo(bundle, "download", "failed-publish")
    /\ status' = "draft"
    /\ UNCHANGED <<attempt, staged, bundle, attestations, dir, proof>>

DownloadDraft ==
    /\ pc = "download"
    /\ dir' = assets
    /\ pc' = "verify"
    /\ UNCHANGED <<attempt, staged, bundle, attestations, status, assets, proof, faults>>

VerifyDraft ==
    /\ pc = "verify"
    /\ LET ok == PostPublicationVerified(dir, attempt) /\ Verifiable(dir) IN
        /\ proof' = IF ok THEN CreateProof(dir, attempt) ELSE Empty
        /\ pc' = IF ok THEN "proof" ELSE "failed-publish"
    /\ UNCHANGED <<attempt, staged, bundle, attestations, status, assets, dir, faults>>

UploadProof ==
    /\ pc = "proof"
    /\ UploadTo(proof, "final", "failed-publish")
    /\ UNCHANGED <<attempt, staged, bundle, attestations, status, dir, proof>>

VerifyFinal ==
    /\ pc = "final"
    /\ dir' = assets
    /\ pc' = IF FinalVerified(assets) THEN "undraft" ELSE "failed-publish"
    /\ UNCHANGED <<attempt, staged, bundle, attestations, status, assets, proof, faults>>

\* gh release edit --draft=false; its answer may be lost.
Undraft ==
    /\ pc = "undraft"
    /\ status' = "public"
    /\ \/ pc' = "done" /\ UNCHANGED faults
       \/ faults < MaxFaults /\ faults' = faults + 1 /\ pc' = "failed-publish"
    /\ UNCHANGED <<attempt, staged, bundle, attestations, assets, dir, proof>>

-------------------------------------------------------------------------------
(* Failures, reruns and the operator *)

FailedAt(p) ==
    CASE p = "stage" -> "failed-stage"
      [] p \in {"sign", "attest", "machine", "package", "manifest", "bundle"} -> "failed-sign"
      [] OTHER -> "failed-publish"

Running == pc \in {"stage", "sign", "attest", "machine", "package", "manifest", "bundle",
                   "guard", "upload", "upload-unread", "download", "verify", "proof",
                   "final", "undraft"}

\* A runner or a service fails; the job ends.
JobFails ==
    /\ Running
    /\ faults < MaxFaults
    /\ faults' = faults + 1
    /\ pc' = FailedAt(pc)
    /\ UNCHANGED <<attempt, staged, bundle, attestations, status, assets, dir, proof>>

RestartsAt(p) ==
    CASE p = "failed-stage" -> "stage"
      [] p = "failed-sign"  -> "sign"
      [] OTHER              -> "guard"

\* GitHub starts the failed job again, or the workflow, with the next attempt.
Rerun ==
    /\ ~Running
    /\ attempt < MaxAttempts
    /\ Careful => status # "draft" \/ ProofKeys \cap DOMAIN assets = {}
    /\ attempt' = attempt + 1
    /\ \/ "all" \in Reruns /\ pc' = "stage"
       \/ "failed" \in Reruns /\ pc # "done" /\ pc' = RestartsAt(pc)
    /\ dir' = Empty
    /\ proof' = Empty
    /\ UNCHANGED <<staged, bundle, attestations, status, assets, faults>>

\* The recovery release-lifecycle.md prescribes: delete the draft, or the
\* proof assets in it, while no job is running.
DeleteDraft ==
    /\ pc = "failed-publish"
    /\ status = "draft"
    /\ status' = "none"
    /\ assets' = Empty
    /\ UNCHANGED <<attempt, pc, staged, bundle, attestations, dir, proof, faults>>

RemoveProofAssets ==
    /\ pc = "failed-publish"
    /\ status = "draft"
    /\ ProofKeys \cap DOMAIN assets # {}
    /\ assets' = Only(assets, DOMAIN assets \ ProofKeys)
    /\ UNCHANGED <<attempt, pc, staged, bundle, attestations, status, dir, proof, faults>>

Step ==
    \/ StageRelease \/ SignRelease \/ AttestRelease \/ MachineVerify
    \/ PackageRelease \/ SignManifest \/ BundleRelease
    \/ GuardExistingRelease \/ CreateRelease \/ DownloadDraft \/ VerifyDraft
    \/ UploadProof \/ VerifyFinal \/ Undraft

Next == Step \/ JobFails \/ Rerun \/ DeleteDraft \/ RemoveProofAssets

Spec == Init /\ [][Next]_vars

\* Jobs run, failed ones are rerun, and what blocks a rerun is cleaned up.
FairSpec ==
    /\ Spec
    /\ WF_vars(Step)
    /\ WF_vars(Rerun)
    /\ WF_vars(RemoveProofAssets)

-------------------------------------------------------------------------------
(* Properties *)

StagedNames == Bound \cup Fresh \cup PayloadSig
Keys == ({File(n) : n \in StagedNames \cup {Archive, Manifest}} \cup
         {Side(n) : n \in StagedNames \cup {Archive, Manifest}}) \cup ProofKeys

\* The shape of the workflow's state: directories map known names to bytes of
\* the file they name, made in an attempt that has begun.
TypeOK ==
    /\ attempt \in 1..MaxAttempts
    /\ faults \in 0..MaxFaults
    /\ status \in {"none", "draft", "public"}
    /\ pc \in {"stage", "sign", "attest", "machine", "package", "manifest", "bundle",
              "guard", "upload", "upload-unread", "download", "verify", "proof", "final",
              "undraft", "done",
              "failed-stage", "failed-sign", "failed-publish"}
    /\ \A d \in {staged, bundle, assets, dir, proof} :
        \A k \in DOMAIN d : k \in Keys /\ d[k].of = k[1] /\ d[k].at \in 0..attempt
    /\ \A s \in attestations : s.attempt \in 1..attempt

\* A release that readers can trust: the publication manifest lists every file
\* beside the proof, and the proof manifest every file of the proof, with the
\* bytes they have; the files promoted from the preflight are among them; every
\* file that is not a signature or a raw attestation is signed over its bytes;
\* and the post-publication record was made from these very bytes.
Acceptable(c) ==
    LET base   == DOMAIN c \ ProofKeys
        listed == c[File(Manifest)].holds
        proved == c[File(ProofManifest)].holds
    IN  /\ UNION {Self, ProofManifestKeys, {File(Record), Side(Record)}} \subseteq DOMAIN c
        /\ DOMAIN listed = base \ Self
        /\ \A k \in DOMAIN listed : listed[k] = c[k]
        /\ \A n \in Bound : c[File(n)] = Bytes(n, 0, Empty)
        /\ \A k \in (DOMAIN c \ base) \ ProofManifestKeys :
            k \in DOMAIN proved /\ proved[k] = c[k]
        /\ \A k \in NonSide(c) \ {File(RawStatements), File(ManifestStatement)} :
            SignatureValid(c, k)
        /\ c[File(Record)].holds = Only(c, NonSide(Only(c, base)))

\* Nothing is made public that is not acceptable, whatever uploads lost or left
\* behind and however often the jobs were rerun.
PublicIsAcceptable == status = "public" => Acceptable(assets)

Lifecycle == INSTANCE ReleaseLifecycle WITH
    phase <- status,
    content <- IF status = "public" THEN assets ELSE Empty,
    unread <- pc = "upload-unread"

\* The workflow implements its life cycle: a draft may come and go, a public
\* release is acceptable and is not changed by a rerun, unless that rerun could
\* not read the release it found: then it makes it a draft again, against
\* release-lifecycle.md ("If a release is already public, never mutate assets").
ImplementsLifecycle == Lifecycle!Spec

\* With the repairs, and as many attempts as the faults need, the release becomes
\* public: no lost upload, failed job, lost answer or rerun, of the failed job or
\* of all of them, leaves a state the workflow cannot finish from.
EventuallyPublic == <>(status = "public")

===============================================================================
