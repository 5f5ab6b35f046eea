------------------------------ MODULE ReleaseGate ------------------------------
(***************************************************************************)
(* The way of a build to an authorised release tag: Image Build runs and   *)
(* their reruns (image-build.yml), the operator's evidence bundle and its  *)
(* ingress (release-evidence-ingress.yml), Release Preflight               *)
(* (release-preflight.yml), the scheduled drift evidence                   *)
(* (governance-drift.yml) and the gates of the tag workflow (release.yml,  *)
(* jobs preflight-binding, governance and input-preflight).                *)
(*                                                                         *)
(* Commit i is built by run i.  Evidence is what a bundle's descriptor     *)
(* says: for which build and when it was collected, which documents are    *)
(* kept from the bundle before it, and which one document is flawed.       *)
(* `upsets' counts what happens around the pipeline, and is bounded: days  *)
(* that pass, a rerun, a push, reused documents, a further drift run, a    *)
(* lost request, a changed setting, a wrong annotation, a dry run, a       *)
(* further preflight; a flawed document uses it up.                        *)
(***************************************************************************)
EXTENDS ReleaseIngress, Governance

CONSTANTS
    Versions,                                        \* release versions
    Pauses,                                          \* days that may pass at once
    MaxCommit, MaxAttempt,                           \* bounds
    MaxBundles, MaxPreflights, MaxDrift, MaxUpsets

ASSUME GateAssumption ==
    /\ Ga \subseteq Versions /\ Pauses \subseteq Nat
    /\ {MaxPreflights, MaxUpsets} \subseteq Nat
    /\ {MaxCommit, MaxAttempt, MaxBundles, MaxDrift} \subseteq Nat \ {0}

VARIABLES
    main,       \* head of the protected branch
    runs,       \* Image Build runs
    now,        \* days
    live,       \* governance settings that satisfy the policy
    drift,      \* governance drift runs
    bundle,     \* the operator's evidence bundle
    staged,     \* artifacts of Release Evidence Ingress
    preflight,  \* the preflight under way
    artifacts,  \* artifacts of successful preflights
    tag,        \* the release tag and how far its workflow is
    upsets

buildVars == <<main, runs>>
govVars   == <<live, drift>>
vars == <<main, runs, now, live, drift, bundle, staged, preflight, artifacts, tag, upsets>>

Commits == 1..MaxCommit

Upset(n) == upsets + n <= MaxUpsets /\ upsets' = upsets + n

-------------------------------------------------------------------------------
(* Documents of a bundle *)

\* Everything a release of version v needs from the operator.
OperatorKeys(v) ==
    RequiredPaths(v)
      \cup (IF v \notin Ga THEN {}
            ELSE At("lab", LabRows(v))
                   \cup At("acquisition", LabRows(v) \cup (Rows("release") \cap Rows("qemu")))
                   \cup At("hardware", Rows("hardware")) \cup At("runtime", Rows("runtime"))
                   \cup At("ota", Rows("ota"))
                   \cup At("signing", Rows("signing"))
                   \cup At("hsm", Rows("signing") \cap Rows("release")))

\* The document of key k, collected from origin o.
Collect(k, o) ==
    CASE k[1] = "registry"    -> StationRegistry(o)
      [] k[1] = "audit-log"   -> Collected("all", o, {"replay"})
      [] k[1] = "roles"       -> CollectRoles("all", o)
      [] k[1] = "retention"   -> ProduceRetention("all", o)
      [] k[1] = "security"    -> CollectScan(k[2], o)
      [] k[1] = "qemu"        -> CollectQemu(k[2], o)
      [] k[1] = "lab"         -> CollectLab(k[2], o)
      [] k[1] = "hardware"    -> CollectHardware(k[2], o)
      [] k[1] = "acquisition" -> CreateAcquisition(k[2], o)
      [] k[1] = "signing"     -> CollectSigning(k[2], o)
      [] k[1] = "hsm"         -> CollectHsm(k[2], o)
      [] k[1] = "runtime"     -> CollectRuntime(k[2], o)
      [] k[1] = "ota"         -> ProduceOta(k[2], o)
      [] k[1] = "approval"    -> CollectApproval(k[2], o)
      [] k[1] = "repro"       -> CollectRepro(k[2], o)

\* What of a document has an outcome: of an approval its decision, of the OTA
\* artifacts their contract.
Outcomes(k, d) ==
    CASE k[1] = "approval" -> {"decision"}
      [] k[1] = "ota"      -> {"ota_contract"}
      [] OTHER             -> DOMAIN d.results

NoFlaw == [kind |-> "none"]

\* One thing wrong with the document of key k: an outcome that is not "passed",
\* or is in the raw evidence only; an item left out; a file that is not the
\* recorded one; the wrong schema; no document; another target's document;
\* station events out of order.
Flaws(k, v, o) ==
    LET d == Collect(k, o) IN
    {[kind |-> x, key |-> k, item |-> i] : x \in {"failed", "edited"}, i \in Outcomes(k, d)}
      \cup {[kind |-> "dropped", key |-> k, item |-> i] : i \in DOMAIN d.results}
      \cup {[kind |-> x, key |-> k] : x \in {"damaged", "wrong-schema", "malformed", "missing"}}
      \cup {[kind |-> "misfiled", key |-> k, from |-> q] :
               q \in {x \in OperatorKeys(v) : x[1] = k[1]} \ {k}}
      \cup (IF k[1] = "acquisition" THEN {[kind |-> "reordered", key |-> k]} ELSE {})

Without(f, i) == [x \in DOMAIN f \ {i} |-> f[x]]

Flawed(d, f, o) ==
    LET facts(x) == IF f.key[1] = "qemu" THEN [x EXCEPT !.facts[f.item] = "failed"] ELSE x IN
    CASE f.kind = "failed" ->
            facts([d EXCEPT !.results[f.item] = "failed", !.raw[f.item] = "failed"])
      [] f.kind = "edited" -> facts([d EXCEPT !.raw[f.item] = "failed"])
      [] f.kind = "dropped" ->
            [d EXCEPT !.results = Without(@, f.item),
                      !.raw = IF f.key[1] = "security" THEN @ ELSE Without(@, f.item)]
      [] f.kind = "damaged" -> [d EXCEPT !.files = FALSE]
      [] f.kind \in {"wrong-schema", "malformed"} -> [d EXCEPT !.shape = f.kind]
      [] f.kind = "misfiled" -> Collect(f.from, o)
      [] f.kind = "reordered" ->
            [d EXCEPT !.order = [i \in DOMAIN @ |-> @[Len(@) + 1 - i]]]

Documents(b) ==
    LET origin(k) == IF k \in b.kept THEN b.old ELSE b.origin
        missing == IF b.flaw.kind = "missing" THEN {b.flaw.key} ELSE {} IN
    [k \in OperatorKeys(b.version) \ missing |->
        IF b.flaw.kind # "none" /\ b.flaw.key = k
        THEN Flawed(Collect(k, origin(k)), b.flaw, origin(k))
        ELSE Collect(k, origin(k))]

\* Documents an operator may take over from the bundle before: none, one, those
\* of a target, all.
Reused(v) ==
    LET keys == OperatorKeys(v) IN
    {{}, keys} \cup {{k} : k \in keys} \cup {{k \in keys : k[2] = t} : t \in Targets}

-------------------------------------------------------------------------------
(* Image Build runs *)

Fresh == [attempt |-> 1, status |-> "success", made |-> [p \in Parts |-> 1], todo |-> {},
          contract |-> 1, log |-> << [p \in Parts |-> 1] >>]
NoRun == [Fresh EXCEPT !.status = "none"]

\* A push to main starts a build and cancels the one that is running.
PushMain ==
    /\ main < MaxCommit
    /\ main' = main + 1
    /\ runs' = [i \in Commits |->
                  IF i = main + 1 THEN Fresh
                  ELSE IF runs[i].status = "running" THEN [runs[i] EXCEPT !.status = "cancelled"]
                  ELSE runs[i]]
    /\ Upset(1)
    /\ UNCHANGED <<now, govVars, bundle, staged, preflight, artifacts, tag>>

\* Some jobs of a run are run again, as the next attempt of the same run.
StartRerun(r, S) ==
    /\ runs[r].status = "success" /\ runs[r].attempt < MaxAttempt
    /\ runs' = [runs EXCEPT ![r].status = "running", ![r].attempt = @ + 1, ![r].todo = S]
    /\ Upset(1)
    /\ UNCHANGED <<main, now, govVars, bundle, staged, preflight, artifacts, tag>>

\* A job uploads its artifact over the one of the attempt before.
RebuildPart(r, p) ==
    /\ runs[r].status = "running" /\ p \in runs[r].todo
    /\ runs' = [runs EXCEPT ![r].made[p] = runs[r].attempt, ![r].todo = @ \ {p}]
    /\ UNCHANGED <<main, now, govVars, bundle, staged, preflight, artifacts, tag, upsets>>

\* Mutant: as if a rerun left the contract of the attempt before in place.
FinishRerunOldContract(r) ==
    /\ runs[r].status = "running" /\ runs[r].todo = {}
    /\ runs' = [runs EXCEPT ![r].status = "success", ![r].log = Append(@, runs[r].made)]
    /\ UNCHANGED <<main, now, govVars, bundle, staged, preflight, artifacts, tag, upsets>>

\* The contract is written over what the build jobs uploaded.
FinishRerun(r) ==
    /\ runs[r].status = "running" /\ runs[r].todo = {}
    /\ runs' = [runs EXCEPT ![r].status = "success", ![r].contract = runs[r].attempt,
                            ![r].log = Append(@, runs[r].made)]
    /\ UNCHANGED <<main, now, govVars, bundle, staged, preflight, artifacts, tag, upsets>>

\* The contract of attempt n of run r.
ContractOf(r, n) == CreateContract(r, r, n, runs[r].log[n])

-------------------------------------------------------------------------------
(* Time, repository settings, drift evidence *)

Tick(days) ==
    /\ now' = now + days
    /\ Upset(1)
    /\ UNCHANGED <<buildVars, govVars, bundle, staged, preflight, artifacts, tag>>

\* How many settings no longer satisfy the policy.
Worse(after) == Cardinality({c \in Controls : live[c] /\ ~after[c]})

ChangeSettings(after) ==
    /\ after # live
    /\ live' = after
    /\ Upset(Worse(after))
    /\ UNCHANGED <<buildVars, now, drift, bundle, staged, preflight, artifacts, tag>>

\* `seen' is what the requests saw while the settings became `after'.
GovernanceDrift(lost, seen, after) ==
    /\ Cardinality(drift) < MaxDrift
    /\ Upset(1 + Cardinality(lost) + Worse(after))
    /\ live' = after
    /\ drift' = drift \cup
         {DriftRun(Cardinality(drift) + 1, main, CollectSnapshot(seen, lost, "none"), now)}
    /\ UNCHANGED <<buildVars, now, bundle, staged, preflight, artifacts, tag>>

-------------------------------------------------------------------------------
(* The operator's bundle and its ingress *)

NoBundle == [count |-> 0]

OriginOf(v, r) ==
    [version |-> v, sha |-> r, run |-> r, attempt |-> runs[r].attempt, made |-> runs[r].made,
     at |-> now]

AssembleBundle(v, r, kept, flaw) ==
    LET o == OriginOf(v, r) IN
    /\ bundle.count > 0 => bundle.flaw = NoFlaw
    /\ runs[r].status = "success"
    /\ Upset((IF flaw = NoFlaw THEN 0 ELSE MaxUpsets) + (IF kept = {} THEN 0 ELSE 1))
    /\ kept # {} => bundle.count > 0 /\ (v = bundle.version \/ kept = OperatorKeys(v))
    /\ bundle' = [count |-> bundle.count + 1, version |-> v, origin |-> o,
                  old |-> IF kept = {} THEN o ELSE bundle.origin,
                  kept |-> kept, flaw |-> flaw]
    /\ UNCHANGED <<buildVars, now, govVars, staged, preflight, artifacts, tag>>

OperatorManifestOf(s) ==
    CreateOperatorManifest(Documents(s.bundle), s.version, s.sha, s.run, s.attempt, s.at)

\* SUDERRA_GOVERNANCE_AUDIT_LOG is the audit log of the staged bundle.
AuditExport(s) == IF AuditLogApproved(Documents(s.bundle)) THEN "approved" ELSE "unapproved"

\* The run is successful, of this attempt, and is main's; the bundle is staged,
\* its manifest written, signed and validated.
StageEvidence(r) ==
    LET s == [bundle |-> bundle, version |-> bundle.version, sha |-> r, run |-> r,
              attempt |-> runs[r].attempt, at |-> now] IN
    /\ bundle.count > 0
    /\ \A q \in staged : q.bundle # bundle
    /\ runs[r].status = "success"
    /\ main = r
    /\ CoreFiles(Documents(bundle), DOMAIN Documents(bundle), bundle.version)
    /\ ValidateOperatorManifest(OperatorManifestOf(s), Documents(bundle), bundle.version,
                                r, r, runs[r].attempt, now)
    /\ staged' = staged \cup {s}
    /\ UNCHANGED <<buildVars, now, govVars, bundle, preflight, artifacts, tag, upsets>>

-------------------------------------------------------------------------------
(* Release Preflight *)

Idle(n) == [step |-> "idle", count |-> n, id |-> 0, profile |-> "none", version |-> None,
            sha |-> 0, head |-> 0, run |-> 0, attempt |-> 0, staged |-> None, files |-> None,
            contract |-> None, at |-> 0]

\* The directory a preflight works in, and uploads: p says what it downloaded.
Workspace(p) ==
    LET strict == p.profile \in Strict
        fetched == [k \in {All("audit-log")} |-> [collected |-> p.id, shape |-> "ok"]]
        operators == IF strict THEN RewriteAuditLog(Documents(p.staged.bundle)) ELSE fetched
        collected ==
            [k \in CollectedKeys(p.version) |->
                IF k[1] = "governance" THEN [passed |-> TRUE]
                ELSE IF k[1] = "security" THEN CollectCheck(k[2], p.version, p.sha, p.run)
                ELSE [collected |-> p.id, shape |-> "ok"]]
        dryRun == [k \in IF p.profile = "rc-evidence-dry-run" THEN {All("dry-run")} ELSE {} |->
                     [shape |-> "ok"]]
        docs == IF p.profile = "technical-dry-run" THEN <<>>
                ELSE Over(collected, Over(dryRun, operators))
        b == BindingPayload(p.profile, p.version, p.sha, p.run, p.attempt, p.files, p.contract)
        w == [docs |-> docs, files |-> p.files, contract |-> p.contract, binding |-> b,
              graph |-> SubjectGraphPayload(b, docs),
              operator |-> IF strict THEN OperatorManifestOf(p.staged) ELSE None,
              ingress |-> None]
    IN  [w EXCEPT !.ingress = CreateIngress(w, p.id, p.at)]

\* The source run is read first: its attempt is what the rest is held against.
ResolveSource(profile, v, r, s) ==
    /\ preflight.step = "idle" /\ preflight.count < MaxPreflights
    /\ ProfileAllowed(profile, v)
    /\ runs[r].status = "success"
    /\ Upset((IF profile \in Strict THEN 0 ELSE 1) + (IF preflight.count = 0 THEN 0 ELSE 1))
    /\ profile # "technical-dry-run" => main = r
    /\ profile \in Strict =>
        /\ s.version = v /\ s.sha = r /\ s.run = r /\ s.attempt = runs[r].attempt
        /\ now < s.at + ArtifactLife
        /\ ValidateOperatorManifest(OperatorManifestOf(s), Documents(s.bundle), v, r, r,
                                    runs[r].attempt, now)
    /\ preflight' = [preflight EXCEPT !.step = "resolved", !.count = @ + 1,
                     !.id = preflight.count + 1, !.profile = profile, !.version = v,
                     !.sha = r, !.head = main, !.run = r, !.attempt = runs[r].attempt,
                     !.staged = s]
    /\ UNCHANGED <<buildVars, now, govVars, bundle, staged, artifacts, tag>>

\* The artifacts are downloaded as they are now; the contract, the governance
\* snapshot and the check runs have to hold for the job to go on.
BindArtifacts(lost, seen, after, checks) ==
    LET p == preflight
        files == Files(p.run, runs[p.run].made)
        contract == ContractOf(p.run, runs[p.run].contract)
        audit == IF p.profile \in Strict THEN AuditExport(p.staged) ELSE "none" IN
    /\ p.step = "resolved"
    /\ live' = after
    /\ Upset(Worse(after))
    /\ p.profile \in {"rc-evidence-dry-run", "release-candidate"} => checks
    /\ p.profile # "technical-dry-run" =>
        ValidateGovernance(CollectSnapshot(seen, lost, audit))
    /\ ValidateContract(contract, files, p.sha, p.run, p.attempt)
    /\ preflight' = [p EXCEPT !.step = "bound", !.files = files, !.contract = contract]
    /\ UNCHANGED <<buildVars, now, drift, bundle, staged, artifacts, tag>>

\* The ingress manifest is made and signed, everything is validated, and the
\* directory becomes the preflight's artifact.
FinishPreflight ==
    LET p == [preflight EXCEPT !.at = now] IN
    /\ preflight.step = "bound"
    /\ IF ValidateReleaseInputs(Workspace(p), p.profile, p.version, p.sha, p.run, p.attempt, now)
       THEN /\ artifacts' = artifacts \cup {p}
            /\ preflight' = Idle(p.count)
       ELSE /\ preflight' = [p EXCEPT !.step = "refused"]
            /\ UNCHANGED artifacts
    /\ UNCHANGED <<buildVars, now, govVars, bundle, staged, tag, upsets>>

\* A step of the job fails, or the job is over.
PreflightFails ==
    /\ preflight.step # "idle"
    /\ preflight' = Idle(preflight.count)
    /\ UNCHANGED <<buildVars, now, govVars, bundle, staged, artifacts, tag, upsets>>

-------------------------------------------------------------------------------
(* The tag workflow *)

NoTag == [step |-> "none", name |-> None, commit |-> 0, version |-> None, sha |-> 0, run |-> 0,
          attempt |-> 0, preflight |-> 0, ingress |-> 0, artifact |-> None, drift |-> None,
          settings |-> None, governedAt |-> 0, at |-> 0]

\* A signed tag is pushed; its annotation is written by hand.
PushTag(v, commit, note) ==
    /\ tag.step = "none"
    /\ note.preflight \in {a.id : a \in artifacts}
    /\ tag' = [tag EXCEPT !.step = "pushed", !.name = v, !.commit = commit,
                          !.version = note.version, !.sha = note.sha, !.run = note.run,
                          !.attempt = note.attempt, !.preflight = note.preflight,
                          !.ingress = note.ingress]
    /\ Upset(IF \E a \in artifacts :
                  /\ v = a.version /\ commit = a.sha
                  /\ note = [version |-> a.version, sha |-> a.sha, run |-> a.run,
                             attempt |-> a.attempt, preflight |-> a.id, ingress |-> a.id]
             THEN 0 ELSE 1)
    /\ UNCHANGED <<buildVars, now, govVars, bundle, staged, preflight, artifacts>>

\* The inputs are validated again, against what the tag says.
InputsHold(a) ==
    ValidateReleaseInputs(Workspace(a), ProfileFor(tag.name), tag.name, tag.commit,
                          tag.run, tag.attempt, now)

\* preflight-binding.
BindPreflight(a) ==
    /\ tag.step = "pushed"
    /\ ParseTag(tag)
    /\ ValidateRun(tag, a, now)
    /\ ValidateIngressDigest(tag, Workspace(a))
    /\ CrossBinding(tag, Workspace(a))
    /\ InputsHold(a)
    /\ tag' = [tag EXCEPT !.step = "bound", !.artifact = a]
    /\ UNCHANGED <<buildVars, now, govVars, bundle, staged, preflight, artifacts, upsets>>

\* governance: the settings now, and a recent drift run under the same policy.
GovernanceGate(lost, seen, after, r) ==
    LET snapshot == CollectSnapshot(seen, lost, AuditExport(tag.artifact.staged)) IN
    /\ tag.step = "bound"
    /\ live' = after
    /\ Upset(Worse(after))
    /\ r \in SelectRun(drift, now)
    /\ ValidateGovernance(snapshot)
    /\ ValidateDriftReplay(r, tag.commit)
    /\ tag' = [tag EXCEPT !.step = "governed", !.drift = r, !.settings = seen, !.governedAt = now]
    /\ UNCHANGED <<buildVars, now, drift, bundle, staged, preflight, artifacts>>

\* input-preflight: the same validation once more, before anything is staged.
InputPreflight ==
    /\ tag.step = "governed"
    /\ InputsHold(tag.artifact)
    /\ tag' = [tag EXCEPT !.step = "authorised", !.at = now]
    /\ UNCHANGED <<buildVars, now, govVars, bundle, staged, preflight, artifacts, upsets>>

-------------------------------------------------------------------------------
Init ==
    /\ main = 1
    /\ runs = [i \in Commits |-> IF i = 1 THEN Fresh ELSE NoRun]
    /\ now = 0
    /\ live = [c \in Controls |-> TRUE]
    /\ drift = {DriftRun(1, main, CollectSnapshot(live, {}, "none"), now)}
    /\ bundle = NoBundle
    /\ staged = {}
    /\ preflight = Idle(0)
    /\ artifacts = {}
    /\ tag = NoTag
    /\ upsets = 0

Losses == {{}} \cup {{c} : c \in Controls}
SettingValues == [Controls -> BOOLEAN]

BuildStep ==
    \/ PushMain
    \/ \E r \in Commits : \E S \in {Parts} \cup {{p} : p \in Parts} : StartRerun(r, S)
    \/ \E r \in Commits : \E p \in Parts : RebuildPart(r, p)
    \/ \E r \in Commits : FinishRerun(r)

OperatorStep ==
    \/ /\ bundle.count < MaxBundles
       /\ \E v \in Versions : \E kept \in Reused(v) :
            \E r \in Commits : AssembleBundle(v, r, kept, NoFlaw)
    \/ /\ bundle.count = 0 /\ upsets = 0
       /\ \E v \in Versions, r \in Commits :
            \E k \in OperatorKeys(v) :
                \E flaw \in Flaws(k, v, OriginOf(v, r)) : AssembleBundle(v, r, {}, flaw)
    \/ \E r \in Commits : StageEvidence(r)
    \/ \E a, b \in artifacts, v \in Versions, c \in Commits, n \in 1..MaxAttempt :
        PushTag(v, c, [version |-> a.version, sha |-> a.sha, run |-> a.run, attempt |-> n,
                       preflight |-> a.id, ingress |-> b.id])

PreflightStep ==
    \/ /\ preflight.step = "idle" /\ preflight.count < MaxPreflights
       /\ \E profile \in Profiles, v \in Versions, r \in Commits :
            \E s \in IF profile \in Strict THEN staged ELSE {None} :
                ResolveSource(profile, v, r, s)
    \/ /\ preflight.step = "resolved"
       /\ \E after \in SettingValues : \E seen \in Seen(live, after) :
            \E lost \in Losses, checks \in BOOLEAN : BindArtifacts(lost, seen, after, checks)
    \/ FinishPreflight
    \/ PreflightFails

TagStep ==
    \/ \E a \in artifacts : BindPreflight(a)
    \/ /\ tag.step = "bound"
       /\ \E after \in SettingValues : \E seen \in Seen(live, after) :
            \E lost \in Losses, r \in drift : GovernanceGate(lost, seen, after, r)
    \/ InputPreflight

Next ==
    \/ \E days \in Pauses : Tick(days)
    \/ \E after \in SettingValues : ChangeSettings(after)
    \/ /\ Cardinality(drift) < MaxDrift /\ upsets < MaxUpsets
       /\ \E after \in SettingValues : \E seen \in Seen(live, after) :
            \E lost \in Losses : GovernanceDrift(lost, seen, after)
    \/ BuildStep
    \/ OperatorStep
    \/ PreflightStep
    \/ TagStep

Spec == Init /\ [][Next]_vars

-------------------------------------------------------------------------------
(* Properties *)

\* Shape of the state; a successful run's contract is that of its last attempt,
\* over what is uploaded.
TypeOK ==
    /\ main \in Commits /\ now \in Nat /\ upsets \in 0..MaxUpsets
    /\ \A r \in Commits :
        /\ runs[r].status \in {"none", "success", "running", "cancelled"}
        /\ runs[r].made \in [Parts -> 1..MaxAttempt]
        /\ runs[r].status = "success" =>
            /\ runs[r].contract = runs[r].attempt
            /\ runs[r].log[runs[r].contract] = runs[r].made
    /\ live \in [Controls -> BOOLEAN]
    /\ Cardinality(drift) <= MaxDrift /\ Cardinality(staged) <= MaxBundles
    /\ preflight.step \in {"idle", "resolved", "bound", "refused"}
    /\ Cardinality(artifacts) <= preflight.count
    /\ tag.step \in {"none", "pushed", "bound", "governed", "authorised"}

Authorised == tag.step = "authorised"
Accepted == Workspace(tag.artifact).docs
Subjectless == {"registry", "audit-log", "roles", "hsm"}

\* A tag is authorised only if every document its release needs is there, is
\* complete, reports success throughout (station events in the required order)
\* and, but for those that are not about one build, is of this version, commit
\* and target: whatever one document of a bundle has wrong, and whatever is
\* reused, some validator sees it.  Of the HSM sessions only one has to be
\* there, however many rows have to be signed.
AcceptedEvidenceHolds ==
    Authorised =>
        LET docs == Accepted IN
        /\ \A k \in OperatorKeys(tag.name) : k[1] # "hsm" => k \in DOMAIN docs
        /\ tag.name \in Ga => \E k \in DOMAIN docs : k[1] = "hsm"
        /\ \A k \in OperatorKeys(tag.name) \cap DOMAIN docs :
            LET d == docs[k] IN
            /\ d.shape = "ok"
            /\ DOMAIN d.results = DOMAIN Collect(k, tag.artifact.staged.bundle.origin).results
            /\ \A i \in Outcomes(k, d) : d.results[i] = "passed"
            /\ k[1] = "acquisition" => d.order = AdapterOrder
            /\ k[1] \notin Subjectless =>
                /\ d.version = tag.name /\ d.target = k[2]
                /\ d.sha = tag.commit /\ d.run = tag.run

\* Where the raw evidence is replayed (a station's signed payload, the HSM's
\* signatures, serial logs; scanner reports and guest facts of a production
\* release) an authorised release's raw evidence says what the documents say,
\* and is the evidence that was recorded.
RawEvidenceAgrees ==
    Authorised =>
        LET docs == Accepted IN
        \A k \in DOMAIN docs \ CollectedKeys(tag.name) :
            k[1] \in {"lab", "hsm", "runtime"}
                     \cup (IF tag.name \in Ga THEN {"security", "qemu"} ELSE {})
              => /\ \A i \in DOMAIN docs[k].raw : docs[k].raw[i] = "passed"
                 /\ docs[k].files

\* Evidence about bytes is about the bytes that are promoted, through a rerun
\* of the build after it was collected too: QEMU images always; in production
\* the signed and HSM-signed artifacts and, along the chain from the lab record
\* to the station's events to the hardware subject, what the devices read back.
\* A row that is not released promotes no bytes.
BytesArePromoted ==
    Authorised =>
        LET docs == Accepted
            bound == BoundDigests(Workspace(tag.artifact).binding) IN
        /\ \A t \in Rows("release") \cap Rows("qemu") : docs[<<"qemu", t>>].image \in bound[t]
        /\ tag.name \in Ga =>
            /\ \A t \in Rows("release") \cap Rows("signing") \cap Rows("public") :
                docs[<<"signing", t>>].outputs["release-artifact"] \in bound[t]
            /\ \A k \in DOMAIN docs : k[1] = "hsm" => docs[k].artifact \in bound[k[2]]
            /\ \A t \in Rows("release") \cap Rows("hardware") :
                /\ docs[<<"hardware", t>>].readback \in bound[t]
                /\ docs[<<"acquisition", t>>].readback \in bound[t]
                /\ t \in LabRows(tag.name) => docs[<<"lab", t>>].readback \in bound[t]

\* What is promoted is the whole output of the attempt the tag names, of the
\* commit the tag is on: no file of another attempt is mixed in, whenever the
\* preflight downloaded the artifacts.
PromotedIsOneBuild ==
    Authorised =>
        /\ tag.commit = tag.run
        /\ tag.artifact.files = Files(tag.run, runs[tag.run].log[tag.attempt])
        /\ tag.artifact.profile \in Strict /\ tag.artifact.head = tag.commit

\* Nothing an authorisation rests on has expired by then, however long the tag
\* workflow waited: station calibration, retention, accepted risks, manifests.
NothingExpired ==
    Authorised =>
        LET docs == Accepted IN
        /\ LabRows(tag.name) # {} => docs[All("registry")].calibration > tag.at
        /\ \A t \in Rows("release") : docs[<<"approval", t>>].expires > tag.at
        /\ tag.name \in Ga => docs[All("retention")].retainUntil > tag.at
        /\ OperatorManifestOf(tag.artifact.staged).expires > tag.at
        /\ tag.artifact.at + IngressLife > tag.at

\* Each setting satisfied the policy when the tag workflow read it, and when the
\* drift run it relies on did, under the policy of the released commit and not
\* longer ago than the lookback allows.  They need not have done so at one
\* moment: a setting may be broken after it was read and before the next one is.
GovernanceWasCompliant ==
    Authorised =>
        /\ \A c \in Controls : tag.settings[c] /\ tag.drift.snapshot.controls[c] = "ok"
        /\ PolicyDigest(tag.drift.head) = PolicyDigest(tag.commit)
        /\ tag.governedAt - tag.drift.at <= DriftLife

\* Evidence with nothing wrong, collected from the bytes the preflight promotes.
GoodEvidence(p) ==
    LET b == p.staged.bundle IN
    /\ b.flaw = NoFlaw /\ b.kept = {}
    /\ b.origin.run = p.run /\ b.origin.attempt = p.attempt
    /\ Files(b.origin.run, b.origin.made) = p.files
    /\ now < b.origin.at + CalibrationLife
    /\ now < b.origin.at + RetentionLife
    /\ now < b.origin.at + RiskLife
    /\ now < p.staged.at + IngressLife

\* A preflight that got as far as the validation of its inputs with complete,
\* successful and current evidence for its build is not refused.
GoodEvidencePasses ==
    preflight.step = "refused" /\ preflight.profile \in Strict => ~GoodEvidence(preflight)

\* Rows a production release can be made from.  A row that is gated or public is
\* released; a row with a hardware subject has a station's record; what is signed
\* has a role, and something released is; the station's adapters read back the
\* image, each in its own turn.
ProductionMatrix ==
    /\ SubjectRows \subseteq Rows("release")
    /\ Rows("hardware") \subseteq Rows("release") \cup Rows("gate")
    /\ \A t \in Rows("signing") : ExpectedSigningRoles(t) # {}
    /\ Rows("signing") \cap Rows("release") # {}
    /\ "readback" \in Adapters
    /\ \A i, j \in 1..Len(AdapterOrder) : AdapterOrder[i] = AdapterOrder[j] => i = j

\* A registry may not admit every target by a wildcard: no row is called "*".
NoWildcard == "*" \notin Targets

===============================================================================
