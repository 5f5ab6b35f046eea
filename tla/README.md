# Suderra OS: TLA+ specifications and proofs

Suderra OS is an appliance operating system with A/B updates, an encrypted data
partition, a hardware watchdog, remote provisioning and an evidence-driven
release pipeline. This directory specifies the parts of it that keep state
across failures, model-checks them with TLC on small instances and proves their
main safety properties with TLAPS for all instances. The first half (OTA, boot,
watchdog, `/data`, versions) is about the device, the second about the pipeline
that decides what a device may install.

Paths below are relative to the root of the repository.

## 1. Inventory

| Part | State it keeps | Operations | Interacts with |
|---|---|---|---|
| `suderra-ota` (`userspace/suderra-ota`) | `state.json` and `rollback-floor` under `/data/suderra/ota`; a trusted floor it only reads | `install`, `mark-good`, `rollback`, `verify`, `status` | calls `rauc` and `systemctl`; called by the boot-time gate and by an operator; takes no lock |
| Boot-time gate (`package/suderra-rauc-config`) | none | health gate, then `mark-good`, else `rollback` | runs once per boot, next to operator commands |
| RAUC (external) | slots, bootloader environment | install, activate, mark good, mark bad | shares the environment with the boot chooser |
| Boot choosers (`board/suderra/x86_64/grub.cfg`, `board/suderra/aarch64-rpi4/boot.scr.cmd`) | `ORDER`, `x_OK`, `x_TRY`; `BOOT_ORDER`, `BOOT_x_LEFT` | pick a slot, record the attempt, start it | run between two lives of everything above |
| `suderra-watchdog` | failure count; the hardware timer | tick, check, restart, feed, give up, terminate | systemd, `/dev/watchdog` |
| `/data` unlock (`usr/sbin/suderra-data-unlock`) | LUKS header, key slots, filesystem | provision, unlock, mount, bind | TPM; everything under `/data` waits for it |
| Version comparators | none | parse, compare | OTA floor, edge manifest contracts, edge install |
| Provisioning (`suderra-provision`, `-worker`, `suderra-edge-install`, `suderra-lockdown`) | spool directory, releases, `current` link, config, `current.env`, lock marker, masked units | request, claim, install, activate, lock, report | a path unit starts the worker; lockdown stops it |
| USB OS installer (`package/suderra-os-installer`) | the target disk | verify payload, choose, write, read back | `suderra-installer` contracts |
| `suderra-installer` (Rust) | installed state, audit log | install, contracts, list, status | edge install and USB installer call its contracts |
| Image Build (`.github/workflows/image-build.yml`) | artifacts of a run, one name per part, overwritten by a rerun; the build contract | build, rerun, write the contract | main; everything below downloads its artifacts |
| Evidence tools and validators (`scripts/evidence/validate-*.py`, `suderra-lab.py`, `station-acquisition.py`, ...) | documents with digests, outcomes, expiry | collect, sign, validate, replay raw evidence | stations, HSM, scanners, QEMU |
| Ingress and preflight (`operator-evidence-ingress.py`, `prepare-release-inputs.py`, `release-ingress.py`, `release-preflight.yml`) | staged bundle, binding, subject graph, ingress manifest | stage, bind, validate, upload | operator, Image Build, governance |
| Governance (`collect-governance.py`, `validate-governance.py`, `governance-drift.yml`) | snapshots, drift artifacts | collect, validate, replay | repository settings that anybody with the right may change |
| Release tag gates (`validate-release-tag-binding.py`, first jobs of `release.yml`) | none | parse, bind, check again | the tag and its annotation, written by hand |
| Signing and publication (later jobs of `release.yml`, `machine-verification-record.py`, publication manifests) | staged and signed artifacts, attestations, the GitHub release | stage, sign, attest, draft, verify, undraft | GitHub; operators clean up between reruns |
| CI, build and QEMU tooling | none across runs | build, lint, drive scenarios | observes the rest |

What is hard in it: two processes run `suderra-ota` on the same files, and on one temporary file,
without a lock; a power cut may come between any two writes, and `save_state`
does not fsync; probes and queries that fail are taken for answers; the boot chooser, RAUC and the tool each hold a part of the truth about
which slot is good; the watchdog feeds and waits in one task; provisioning of
`/data` is a sequence of irreversible steps; lockdown destroys the channel it
was asked through. The release pipeline is a distributed protocol without a
lock: builds are rerun and main moves while a preflight reads them, evidence is
collected days before it is used, uploads and answers get lost, and every job
may be run again from its start. `PROJECT.json` lists the hazards with the lines they bite at.

What makes each part correct, in one line:

- OTA: no slot is written below the rollback floor; the floor only rises, and only to versions that ran and were marked good.
- Boot chooser: a dead image does not keep a working one from being reached (on GRUB: unless RAUC has marked it `OK` beforehand).
- Gate: a good update is accepted, a bad one is not, and a healthy device stays bootable.
- Watchdog: the machine is reset only for a reason, and a unit that stays down is acted on.
- `/data`: the owner's data is not destroyed as long as the partition can be read, and is never stored unsealed; a provisioned volume comes back.
- Versions: one order, without cycles, shared by all comparators.
- Provisioning: a device is locked only when provisioned, and a request is answered with its own result.
- Release gate: a tag is authorised only on complete, successful, unexpired evidence about the very bytes of one build, and good evidence is enough.
- Publication: what becomes public is complete and verified, is not changed again by a job that can see it, and a release that meets faults is finished by reruns.

## 2. Modules

| Module | Models | Lines of code it stands for |
|---|---|---|
| `BootChooser` | both boot choosers and what RAUC writes into their environment | `grub.cfg`, `boot.scr.cmd`, `initialize_grubenv` |
| `SuderraOta` | a device: OTA tool, gate, slots, files, power | `suderra-ota/src/main.rs`, `suderra-rauc-mark-good`, the health gate, the slot hooks |
| `ABUpdate` | what a device with two slots promises; abstract | |
| `SuderraOtaProofs` | theorems about it, and that it implements `ABUpdate` | |
| `Watchdog`, `WatchdogProofs` | the watchdog daemon and its theorem | `suderra-watchdog/src/main.rs` |
| `DataUnlock`, `DataUnlockProofs` | `/data` on every boot, and its theorems | `suderra-data-unlock` |
| `SemVer`, `SemVerProofs` | the three comparators and the floor they guard, and its theorems | `ParsedVersion` of the OTA tool, `compare_versions` of the installer, `version_key` of edge install |
| `EvidenceInputs` | every document of a release: what writes it, what validates it | 14 scripts under `scripts/evidence` |
| `BuildBinding` | build contract, release binding, subject graph | `image-build-contract.py`, `prepare-release-inputs.py`, `validate_binding` and `validate_subject_graph` |
| `Governance` | snapshot, policy validation, drift runs | `collect-governance.py`, `validate-governance.py`, `validate-governance-drift-replay.py` |
| `ReleaseIngress` | operator and ingress manifests, the order of `validate-release-inputs.py`, tag binding | `operator-evidence-ingress.py`, `release-ingress.py`, `validate-release-inputs.py`, `validate-release-tag-binding.py` |
| `ReleaseGate` | the actors around these operators: builds, operator, preflight, drift runs, tag workflow | `image-build.yml`, `release-evidence-ingress.yml`, `release-preflight.yml`, `governance-drift.yml`, first half of `release.yml` |
| `ReleaseGateProofs`, `ReleaseEvidenceProofs`, `GoodEvidenceProofs` | theorems about builds, governance and the tag; about the evidence that is accepted; about evidence that must be accepted | |
| `ReleasePublish` | staging, signing, draft, verification, publication, reruns | second half of `release.yml`, `machine-verification-record.py`, the publication and proof manifests |
| `ReleasePublishProofs` | theorems about it | |
| `ReleaseLifecycle` | what a reader of a release may rely on; abstract | `docs/operations/release-lifecycle.md` |
| `MCSuderraOta`, `MCSemVer`, `MCReleaseGate` | values of the constants for TLC | |

`ReleaseIngress` extends `BuildBinding`, which extends `EvidenceInputs`;
`ReleaseGate` composes `ReleaseIngress` and `Governance`.

Some definitions that stand next to an action in these modules are marked as
mutants: deliberately wrong versions of it, which show that a property fails
when the code has that mistake. No specification uses them.

### SuderraOta

`env` is the bootloader environment, `image[s]` the version in slot s (0 for an
empty or half-written one), `file` and `disk` the contents of `/data/suderra/ota`
as the running system sees them and as the medium holds them. Each process
(`"gate"`, `"operator"`) has a program counter, the command it runs, its copy of
the state (`let mut state` in the code) and the version it works on. A command
is cut where something another process or the next boot can see has changed:

| Code | Actions |
|---|---|
| `install`: load, verify, policy | `Install` |
| `rauc install` with its hooks | `RaucInstallBegin`, `RaucInstallEnd`, `RaucInstallFails` |
| `pending_boot_slot_after_install` | `PendingSlot` |
| `save_state`, `request_reboot` | `InstallSave`, `Reboot`, `RebootFails` |
| `mark_good` | `MarkGoodLoad`, `MarkGoodRauc`, `MarkGoodSave`, `PersistFloor` |
| `rollback` | `RollbackMark`, `RollbackLoad`, `RollbackSave` |
| `main` on an error: `persist_last_event` | `ErrLoad`, `ErrSave` |
| `suderra-rauc-mark-good` | `HealthGatePasses`, `HealthGateFails`, `GateAborts` |

Versions are natural numbers; `SemVer` is the reason that is sound. Signature,
digest, compatibility and expiry checks of a manifest are one bit, `authentic`.
`last_event`, `last_error` and `reboot_required` are written and printed but
never decide anything, and are left out.

`save_state` writes `state.json.tmp` and renames it, and both processes use that
name. While two of them are saving, the one that renames first (`Takes`) may
take a file the other has opened or written: what lands in `state.json` is its
own text, the other's, or one that does not parse (`Contents`), and the other's
rename fails (`RenameFails`), after what it had yet to write has gone into the
file under its new name. The floor mirror has a temporary name of its own and is
treated alike (`SaveMirror`).

After `PowerLoss` each file is the old or the new one, independently, and
`state.json`, which is renamed without an fsync, may be empty whether or not
there was one before; the mirror is synced before its rename and is not. A
filesystem that orders more than that only has fewer behaviours, so the safety
results hold for it too.

RAUC is external. An activation puts the slot at the head of the order; which
`OK` and `TRY` it leaves in the GRUB environment is the constant `GrubActivate`,
and every run leaves it open (`AnyActivation`). With `OK=1` `grub.cfg:67-70`
starts a dead image again without end, while `ADR-0004-rauc-ab-partition.md:51-59`
promises the fallback; nothing in the repository says which of the two RAUC
writes. `FallsBackOrRetries` therefore names the case (`Retried`) and says that
there is no other one; `ReachesUserspace`, without it, is checked on U-Boot.

`AB == INSTANCE ABUpdate` forgets the environment, the processes, the files and
the medium: it keeps the images, the slot that runs (none while the device is
down) and the floor that `load_state` would return; a `state.json` that does not
parse refuses every command and counts as a floor above every version. An
install is an erasure and a write of the other slot, `MarkGoodSave` is the one
step that moves the floor, and writing the mirror, the error paths, a rollback
and the boot chooser's attempts are no steps at all.

### Watchdog

Time is discrete. The daemon's own steps take no time, the `systemctl` calls it
awaits take up to `MaxCheck` and `MaxRestart`, and nothing is fed meanwhile.
`due` is the ticker with `MissedTickBehavior::Delay`, `timer` the hardware.
`soft` is systemd's own timer, refilled by each `WATCHDOG=1`; when it runs out the
daemon is killed (`Abort`). The unit is the one in the daemon's README:
`Restart=always` (`Respawn` after every end that was not asked for) and
`WatchdogSec=30s`, or none. The device is armed by opening it, and signals have
their default effect until the handlers are installed: the phase `"opened"`
between `Open` and `Ready` is that window.

### DataUnlock

The medium (`sig`, `slots`, `fs`, `sealed`, `owner`) survives a power cut, the
rest does not. `owner` records whether the partition holds data of the owner
and whether any step has destroyed it. `cryptsetup erase` is modelled as it
works: it removes the key slots and leaves the header. `IsLuks` and `Blkid` are
probes that may fail, and the script takes every failure for "no" (lines 49 and
102); `misread` remembers which of them failed to see what is there in the
current run of the script.

### SemVer

A version is what splitting its text gives: the number of leading `v`, the
components, the prerelease identifiers. An identifier carries its place in byte
order, its `u64` value if it parses, and the facts the parsers ask for; an
identifier of letters, digits and dashes that parses as a `u64` is all digits
(`IdentifierAssumption`; `parse::<u64>` takes a leading `+` and nothing else). The
state machine is a floor that `mark_good` raises; a comparator that is not
transitive lets a chain of raises come round.

`version_key` is modelled as the text it prints: each component is what
`printf '%06d'` makes of it (`PrintfReads`: 0 when it is not all digits, octal
after a leading 0, cut off at the largest long), in six digits or as many as it
takes (`Width`), and `[ a \< b ]` compares byte by byte (`TextOrder`). From 10^6
on the order is wrong: `1000000` sorts below `999999`.

### EvidenceInputs, BuildBinding, Governance, ReleaseIngress

The scripts are pure: a document goes in, a list of failures comes out. Each is
an operator of the script's or function's name. A document is a record:

- `results`: what was checked, and the outcome the document gives. One item stands for all checks of its class (the dozen x86 checks of a lab run are `"x86-check"`);
- `raw`: what the raw evidence beside it says: the payload the station signed, the HSM's signatures, the serial log, the scanner's report;
- `files`: whether the files it refers to have the recorded digests;
- `shape`: `"ok"`, `"malformed"` or `"wrong-schema"`, for the checks of schemas, types, placeholders and safe paths;
- the subject (`version`, `target`, `sha`, `run`), dates, and digests of images.

Digests are records that say which file of which row of which run, made by which
attempt: equal records are equal bytes. The digest of a document is the
document. Which evidence is tied to what is part of the model, and not uniform:

| Evidence | Tied to |
|---|---|
| QEMU input, HSM session, signing manifest, hardware subject | the promoted bytes |
| station acquisition | the artifact of the lab record, and through the hardware subject the bytes |
| lab record of a candidate, runtime suite, reproducibility, OTA artifacts, security reports, retention | the run, not its attempt |
| approval | the commit and version |
| role bindings | the version |

`Repairs` names four places where the code refuses what it has itself written.
With `Repairs = {}`, which is the code, no strict preflight passes (run
`preflight_blocked`) and every claim about an authorised tag would be vacuous;
`release_gate` therefore checks the pipeline with the four repaired:

| Repair | Instead of the code |
|---|---|
| `"collected-files"` | the operator's manifest is validated again over a tree into which the preflight has written its own files |
| `"raw-path"` | the check reports of a candidate name their raw file relative to another directory than the validator's |
| `"artifact-path"` | the image nodes of the subject graph are looked up in the input directory, and lie in the artifact directory |
| `"audit-layout"` | `collect-governance.py` writes the operator's `audit-log.json` out again, indented and with sorted keys, and the digest in the operator's manifest is that of the export (`RewriteAuditLog`); the repair assumes an export laid out that way |

A governance snapshot is one request per file. `Seen` lets every request see its
control as it was before or after a change made meanwhile, so a snapshot need
not be a state the repository was ever in; `GovernanceWasCompliant` says that
each control was seen compliant.

### ReleaseGate

Commit i is built by run i; `runs[r].made` says which attempt last built each
part, `log` what each attempt uploaded. A preflight is cut into the steps
between which others can act: `ResolveSource` reads the run and its attempt,
`BindArtifacts` downloads what is there at that moment, `FinishPreflight`
validates and uploads. The tag workflow is `BindPreflight`, `GovernanceGate`,
`InputPreflight`. Documents are not kept in the state: a bundle is a descriptor
(from which build and when collected, what is kept from the bundle before, which
one document is flawed) and `Documents`, `Workspace` compute the rest.

### ReleasePublish

A directory maps `<<name, "file">>` and `<<name, "side">>` (its `.sig` and
`.cert`) to bytes, and bytes are what they were made from: name, attempt, and
the directory whose digests they hold. A publication manifest is thus a record
that contains what it lists, a signature one that contains what it signs.
`Occurs` are the attempt numbers that happen to occur somewhere in a provenance
predicate: `contains_text` looks for the attempt as a substring of the whole
predicate, in which single digits are found in any case; the cfg lets all of
them occur. `Careful` is the documented clean-up of proof assets before a rerun.

As it is the workflow never publishes (`release_blocked`, and the theorem
`UnrepairedIsNeverDrafted`). `Repairs` names the three steps at which it stops:

| Repair | Instead of the code |
|---|---|
| `"ingress-identity"` | the signature of `release-ingress-manifest.json` has just been replaced by release.yml's and has to be release-preflight.yml's (release.yml:664-698) |
| `"extra-subjects"` | the subjects of the provenance statements have to be exactly the files that are not signatures: a `*.payload-manifest.sig` is one too many (release.yml:708), and so are the generated files of an earlier attempt |
| `"manifest-attestation"` | `release-publication-manifest.json.json` is uploaded with the proof and listed nowhere, and the last check allows only listed files (release.yml:1103, 1205-1219) |

`GuardExistingRelease` is fail-open as in the script: when `gh release view`
fails, for whatever reason, the job goes on as if there were no release
(`"upload-unread"`), and `CreateRelease` makes an existing one a draft.

`Lifecycle == INSTANCE ReleaseLifecycle` maps the GitHub release to its phase
and, once public, to its assets; `unread` is a job that has not read the release.

## 3. Runs

Constants are in the `.cfg` files. Deadlock is checked, except in the release
runs: a release ends, and a pipeline nobody drives stops.

| Run | Properties | Instance and why it is enough |
|---|---|---|
| `ota_races` | `TypeOK`, `FloorProven`, `WritesAboveTrustedFloor` | GRUB, gate and operator overlapping at every step and sharing their temporary files, two commands, one fault, `rauc status` naming the wrong slot, a trusted floor of 2 of 3 versions. One command of the operator against the gate meets every pair of steps, the second one what the first pair has left behind. |
| `ota_serial` | `FloorMonotone`, `WritesAboveFloor`, `ImplementsABUpdate`, `ReachesUserspace`, `GoodUpdateMarked` | U-Boot with two tries, four versions of which one is dead and one unhealthy, two commands one at a time, two faults: a loss of state followed by a second one while it is rebuilt. |
| `ota_update` | `MarkedVersionRan`, `PendingIsInstalled`, `ImplementsABUpdate`, `FallsBackOrRetries` | GRUB with any activation, three commands, four versions of which one is dead and one unhealthy, no faults: install, fall back, install again. Here `Disturbed` of `ABUpdate` is false, and the refinement says that the floor moves only to the version that runs. |
| `watchdog` | `TypeOK`, `ResetHasACause`, `SickUnitIsActedOn` | One unit of time is 5 s: interval 20 s, timeout 60 s or a device's own 45 s, `systemctl restart` up to the 90 s systemd grants a unit to stop, `WatchdogSec` 30 s or none; thresholds 2 and 4, failing writes, killed daemon, device present or missing, `Restart=always`. Every timer can run out before every other one. |
| `data_unlock` | `TypeOK`, `DataSurvives`, `SealedAtRest`, `FirstBootProvisions`, `ProvisionedComesBack` | Both variants, all starting partitions, three faults anywhere (both probes and one step after them), one policy update. |
| `semver_order` | `FloorNeverComesRound`, `InstallerAgrees`, `KeyOrdersCores` | Identifiers that byte order and numeric order rank differently (`10`, `1a`, `2`), padded, oversized, empty and foreign ones; cores of two to four components, with six and seven digits and with leading zeros. |
| `release_gate` | `TypeOK`, `AcceptedEvidenceHolds`, `RawEvidenceAgrees`, `BytesArePromoted`, `PromotedIsOneBuild`, `NothingExpired`, `GovernanceWasCompliant`, `GoodEvidencePasses` | A QEMU row and a device row that carries the policies of all device rows of the build matrix, so that every validator is reached and documents can be misfiled, both of them to be signed; a candidate and a production version; two commits, attempts, bundles, preflights and drift runs. Two upsets: any two of a rerun, a push, reused documents, a pause of one or two days, a lost request, a setting that leaves the policy before, between or after the requests of a snapshot, a wrong annotation, a dry run; or one flaw, every flaw of every document. Two are what the known races need (rerun and reuse, pause and drift run). Lives of one and two days with pauses of one and two let each thing expire alone. |
| `release_publish` | `TypeOK`, `PublicIsAcceptable`, `ImplementsLifecycle`, `EventuallyPublic` | The ingress manifest, a payload signature and a generated file, the three repairs, two faults (failed job, failed view, half upload of any subset, silent loss, lost answer), three attempts, reruns of the failed job or of all. Two files are what a partial upload has to tell apart; two faults and three attempts let a failed clean-up meet a second failure, and a lost answer a failed view. |

Of HSM sessions `validate-release-inputs.py` wants one that validates, not one
per signed row (lines 1695-1712): a production release with two rows to be
signed passes with one session. `AcceptedEvidenceHolds` says what the code
guarantees, that there is a session and that every session there is holds;
which of them are required is the one point where the manifest of required
paths and the matrix differ.

`GoodUpdateMarked` speaks of the first command after the factory: with a second
one the operator may roll back, or install over, what is about to be accepted.

Four runs show disagreements between the code and what the repository says of
it; each is a finding in `PROJECT.json` with the lines quoted.

| Run | What happens |
|---|---|
| `ota_healthy_boot` | `suderra-rauc-mark-good` rolls back every boot on which nothing is pending, the first one included, although the health gate has passed. After a boot chooser fallback it marks the old slot bad the same way. |
| `ota_lost_update` | An `install` that overlaps the gate's `mark-good` writes the old floor back. |
| `preflight_blocked` | A release-candidate or production preflight refuses complete and successful evidence, because its own collectors have written into the trees that the operator's manifest has to list completely. Three more refusals wait behind it (`Repairs`). |
| `release_blocked` | Without any fault no release becomes public: release-sign replaces the signature of the ingress manifest and then asks for the preflight's. Two more refusals wait behind it (`Repairs` of `ReleasePublish`). |

Where the code does less than its comments or documents say, and a passing
property has the case as a named condition instead of a run of its own:

| What the repository says | What the code does | Where the property says so |
|---|---|---|
| `ADR-0004-rauc-ab-partition.md:51-59`: a broken update falls back | `grub.cfg:67-70` starts a slot with `OK=1` for ever | `Retried` in `FallsBackOrRetries` |
| `suderra-watchdog/README.md:11-12` and `main.rs:12-13`: a daemon that stops feeding gets the machine reset | under the documented `Restart=always` it is started again and feeds | `SickUnitIsActedOn` promises a further restart of the unit, not a reset |
| `main.rs:253-254`: feeding goes on until the reboot threshold | nothing is fed while `systemctl restart` is awaited; with the defaults 40 s of it are enough for a reset | the last case of `ResetHasACause` |
| `suderra-watchdog/README.md:14-15`: a planned stop does not reset the machine | a SIGTERM before `main.rs:207` kills the daemon with the device armed | the case `"crashed"` of `ResetHasACause` |
| `suderra-data-unlock:46-48`: never format a partition that carries data | a `blkid` (and `isLuks`) that fails reads as blank | `misread` in `DataSurvives` |
| `suderra-data-unlock:75-76`: a failed enrolment is provisioned again | the header stays, and no later boot opens or formats it | `FirstBootProvisions` excepts faults |
| `suderra-edge-install:89`: a numeric comparator | text of `%06d` numerals | `Ordinary` in `KeyOrdersCores` |
| `release-lifecycle.md:231-232`: never mutate a public release | a rerun whose `gh release view` fails makes it a draft | `Redraft` of `ReleaseLifecycle` |

### Fairness

- OTA: the boot chooser, the gate and a process that is inside the tool make progress (`FairSpec`): they are processes the kernel schedules and calls that return. Nobody has to issue a command or power-cycle a halted device.
- Watchdog: time passes, the daemon is scheduled, systemd kills an overdue daemon and starts one that has ended, as its unit says. Calls end because time does not pass a call at its longest.
- `/data`: the script runs to an end, a device that is off is switched on, and a device on which the script failed is restarted some time (strong fairness of that restart, because a manual rerun may come first each time).

- Publication: a job that runs makes progress, a failed one is rerun and what blocks the rerun is removed, as `release-lifecycle.md` tells the operator to (weak fairness of `Step`, `Rerun`, `RemoveProofAssets`). Nobody has to delete a draft. The gate has no liveness property: whether a release is made at all is the operators' decision; `GoodEvidencePasses` is its safety counterpart.

Faults are bounded, so every fair behaviour has a last one.

## 4. Proofs

The theorems hold for every value of the constants that satisfies the `ASSUME`s
of the module: any number of versions, manifests, commands and faults.

`SuderraOtaProofs`

- `TypeCorrectness` and `TrustedFloorIsEnforced`, `FloorIsProven`: from one inductive invariant. `FloorProven` is not inductive by itself: a process may hold, in its local copy, a floor that it has yet to write. The invariant therefore says of every local copy what the property says of the files, says that a version at `MarkGoodSave` or `PersistFloor` has already been marked good by RAUC, and that a version on its way into a slot passed the policy against a floor no lower than the trusted one.
- `SerialFloorMonotone` and `SerialWritesAboveFloor`, for `Overlap = FALSE`: a second invariant adds that at most one process is inside the tool, so that the floor in its copy is the floor in the file. `ota_lost_update` shows that the hypothesis is needed.
- `MarkedVersionIsRunning` and `AnnouncedIsInstalled`, for an undisturbed device (`Undisturbed`: commands do not overlap, no faults, nobody marks good by hand, `rauc status` names the slot to boot next), for both boot choosers. These are the conditions of the run `ota_update`, and TLC refutes the properties when any one of them is dropped: an overlapping gate or a power cut between `rauc install` and the save, or a status that names the other slot, makes `state.json` describe an image that is not there, and `mark-good --version` marks the version it is given whatever runs. The invariant `UInv` says what a slot named in a copy of the state, or in the file, holds (`InSlot`, `Knows`, `FileKnows`), and where the process that holds the copy is in the command.

- `ImplementsAB` (`Spec => AB!Spec`), for `Overlap = FALSE`, with faults and power cuts. The run `ota_lost_update` is again the reason for the hypothesis. A third invariant, `RInv`, says at each label that what the process is about to do is what an A/B updater may do: the slot to be written is erased, the floor in its copy is exactly the floor in the file (`SInv` only says not below), and after `rauc status mark-good` the floor to be saved is the version marked. Each action is then one step of `ABUpdate` or none (`InstallRefines`, `OtherRefines`, `AroundRefines`). `Disturbed` is the negation of `Undisturbed`: on a disturbed device the floor may be lost with `/data`, and `mark-good` may raise it to a version that does not run; on an undisturbed one `UInv` excludes both. That the running slot is never written, and that the floor never moves but by a mark-good, holds on either.

`WatchdogProofs`

- `ResetsHaveACause`, without any bound on the calls. The invariant gives, for each phase of a daemon whose last write went through, a lower bound on the timer: the limit less the interval (as far as it has run) and less the time this tick has spent in calls. It is what makes "lateness does not add up" true: a tick that fires late starts from a fresh deadline and a fresh timer.
- `WatchdogTypes`: the same bounds from above.

`DataUnlockProofs`

- `DataIsDestroyedOnlyBlindly` and `DataIsSealed`. The invariant follows the script: whoever is at `luksFormat` over a partition that is not blank has `blkid` in `misread`, and over LUKS also `isLuks`; after a format and until the first mount there is no data, `fresh` is false whenever an old volume is being opened, an open mapper implies a TPM slot. `DataTypes` comes with it.

`SemVerProofs`

- `FloorIsMonotonic`, `InstallerOrdersAlike`, `KeyComparesCores`, for any set of versions and prereleases of any length. They rest on facts about the comparators alone (`ChainOfVersions`: answers chain and opposite directions are opposite; `InstallerCompares`; `KeyIsCore`). A comparison of two lists is described by the vector of the answers for their items; `ChainOfLists` and `OppositeLists` make the argument about the first difference once, and numbers, identifiers and prereleases are instances. The induction that would be over the length of a list is over the position of the first difference, which `LeastIsMin` takes from the well-foundedness of `<`.

`ReleaseGateProofs`

- `OneBuildIsPromoted` and `GovernanceHeld`, from `GateInv`. A rerun overwrites artifacts under the same names, so what a preflight holds is compared with a contract and not with what the run has now. The invariant says that contracts are never rewritten (`RunsOK`, and `Kept` between two states), that a bound preflight holds the files of the contract it resolved (`Bound`), and what each gate of the tag workflow has established (`TagOK`).
- `GateTypes`: bounds are about cardinalities of sets that grow, and need that a bundle is staged once and a preflight uploads once (`CountInv`).

`ReleaseEvidenceProofs`

- `EvidenceHolds`, `RawEvidenceHeld`, `EvidenceIsAboutTheBytes`, `AuthorisedIsCurrent`: for any build matrix, policy, version and number of days. The invariant adds to `GateInv` only that every bundle was assembled by the operator (`BundleOK`). From there the argument is about the operators: an accepted document is a collected one, of the same kind but perhaps of another row or round, with at most one thing changed (`DocumentForms`, `AcceptedCopy`), and for each kind the validators refuse each change (`GlobalHolds` for the four documents that are about everything, `RowHolds` for those about a row) and each gap (`AllThere`). `ReversedOrder` is the fact that events told backwards are out of order unless there is only one.
- The theorems do not mention `Repairs`. Without the repairs no strict preflight passes and they hold vacuously; `release_gate` reaches authorised tags with the repairs, for a candidate and for production.
- Assumed of the constants: the matrix releases a row that is tested in a lab (`MatrixAssumption`; `suderra-rpi4-target` in `ci/build-matrix.yml`), no row is called as the installers' artifact (`PartAssumption`), bounds are positive where an instance without them has no first build.

`ReleasePublishProofs`

- `WorkflowImplementsLifecycle` (`Spec => Lifecycle!Spec`) and `PublicReleaseIsAcceptable`, from `PublishInv`. What the last check of the publish job reads is only a directory; that it is acceptable needs to know where its manifests come from. The invariant says so of every manifest and proof manifest wherever it lies (signed artifact, draft, working directory), because a rerun mixes those of several attempts in one draft: a publication manifest lists no proof file and lists the promoted bytes (`HasGoodManifest`), and a proof manifest names a record that is determined by the publication manifest it names (`HasGoodProof`). `FinalIsAcceptable` draws the conclusion; `StatusInv` ties the steps to the state of the release, so that only a job that has not read a public one writes to it. The theorems hold for every set of `Repairs`; `release_publish` reaches public releases with all three. Assumed of the constants: promoted and generated files differ, the ingress manifest is a promoted one, and none has a name the jobs give out.
- `UnrepairedIsNeverDrafted`: without `"ingress-identity"` `status` stays `"none"`, for any files, faults and reruns. The directory at `"attest"` holds the ingress manifest's signature of an attempt, never the preflight's, so `SignedComplete` fails and nothing behind it runs.
- `PublishTypes`: bytes contain the directories they were made from, so the type of a directory is that of its labels, not of what is inside.

`GoodEvidenceProofs`

- `GoodEvidenceIsAccepted` (`Spec => []GoodEvidencePasses`) and `GoodCandidateIsAccepted`: the counterpart of the theorems above, that no validator is too strict. The invariant `AcceptInv` says where the inputs of a preflight come from and that nothing but the validation refuses it; it needs `GateInv`, for the files a preflight holds are those of the contract. The rest runs through every conjunct of every validator: each accepts what its collector writes, in the tree of the preflight and in the order the checks are made, when it is asked about the build the evidence was collected from and before it expires.
- Hypotheses. Both need repairs, since the code as it is refuses good evidence (`preflight_blocked`): a candidate `"collected-files"`, `"raw-path"` and `"audit-layout"`, production all four. `NoWildcard`: a station registry must not admit `"*"`, so no row may be called that. Production also needs `ProductionMatrix`: a row that is gated or public is released, a row with a hardware subject has a station record, every signed row has a signing role and some released row is signed, and the station's adapters include a read-back and are listed once. TLC finds good evidence refused with a public row that is not released (the subject graph has no image for it), with an adapter list without a read-back, and with no row to be signed.
- `MCReleaseGate` states both hypotheses as `MCMatrix`, so every run on it evaluates them: the instance TLC checks is one the theorems are about. The matrix in `ci/build-matrix.yml` does not satisfy `ProductionMatrix` at this commit: `suderra_x86_64_defconfig` is a production row with a blocker and `release: false`. It is not meant to pass yet; the candidate theorem applies to it as it is.

Only model-checked: the liveness properties (`ReachesUserspace`,
`FallsBackOrRetries`, `GoodUpdateMarked`, `SickUnitIsActedOn`,
`FirstBootProvisions`, `ProvisionedComesBack`, `EventuallyPublic`), because the
prover has no rules for fairness. Every invariant, every action property and
both refinements that the passing runs check are proved.

## 5. Not modelled yet, and the plan

In this order:

1. **Provisioning**: client, path unit, worker, edge install with its link and config, lockdown with its markers and masks, power cuts. Properties: a locked device has an agent, a config and a registration; a client is told `ok` only for its own request; a failed activation restores what ran before; a device is always either provisionable or locked. `SemVer`'s `version_key` guards it.
2. **Readiness commands** of `release-evidence.py`, which repeat the checks of `validate-release-inputs.py` over a finished evidence directory, and the step of `rc-evidence-dry-run.py` that replays them.
3. **USB OS installer** and **suderra-installer contracts**: target choice against what is written, read-back, audit.

Left out of the release pipeline: the contents of the evidence archive, release
notes and reports; `release-core`, a shadow implementation that no workflow
calls; the build matrix linters; the wording of failures. The preflight
downloads the artifacts in one step: since a rerun uploads part by part, a
download in the middle of it already gives every mixture of two attempts, parts
being uploaded in any order. Two preflights do not overlap.

Left out for good: signature algorithms, formats and transport (a bit says
whether they succeed), the systemd sandbox of each unit, CI and build
orchestration, QEMU instrumentation, and crates that are still skeletons.
