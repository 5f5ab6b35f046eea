----------------------------- MODULE SuderraOta -----------------------------
(***************************************************************************)
(* A device that updates itself with suderra-ota: the command line tool     *)
(* (userspace/suderra-ota/src/main.rs), the boot-time gate that calls it    *)
(* (package/suderra-rauc-config/suderra-rauc-mark-good), the two slots, the *)
(* bootloader environment and the files under /data/suderra/ota.            *)
(*                                                                         *)
(* Two processes run the tool: "gate", started once per boot by             *)
(* suderra-rauc-mark-good.service, and "operator", a command issued by hand *)
(* or by the agent.  The tool takes no lock.  A command is a sequence of     *)
(* steps with a program counter; a step ends where the command has touched  *)
(* something another process, or the next boot, can see.                   *)
(*                                                                         *)
(* A version is a natural number: module SemVer shows that compare_versions *)
(* is a total order, and the tool uses nothing else of a version.          *)
(* last_event, last_error and reboot_required are written and printed, and  *)
(* never read to decide anything; they are left out.                       *)
(***************************************************************************)
EXTENDS BootChooser

CONSTANTS
  MaxVersion,     \* versions are 1..MaxVersion
  FactoryVersion, \* the image in slot A when the device ships; B is empty
  DefaultFloor,   \* the floor of a device with no state: "v0.1.0-alpha"
  TrustedFloor,   \* SUDERRA_OTA_ROLLBACK_FLOOR_SOURCE_PATH, 0 when not set
  Manifests,      \* the update manifests an operator may present
  Dead,           \* versions whose image never reaches userspace
  Unhealthy,      \* versions whose image does not pass the health gate
  OperatorCmds,   \* the commands the operator issues
  StatusNames,    \* the slot `rauc status` names first, or "pending"
  Overlap,        \* may the two processes run the tool at the same time?
  MaxOps,         \* bound on the operator's commands
  MaxFaults,      \* bound on power losses, failed calls and /data resets
  NoState,        \* state.json does not exist
  Corrupt         \* state.json exists and does not parse

Versions == 1..MaxVersion
Manifest == [version : Versions, floor : Versions, minCurrent : Versions,
             authentic : BOOLEAN]

(* OtaState: the fields of state.json that a decision depends on.           *)
OtaState == [current : Versions, floor : Versions,
             pending : Versions \cup {0}, slot : Slots \cup {"none"}]

ASSUME MaxVersionAssumption == MaxVersion \in Nat
ASSUME FactoryAssumption == FactoryVersion \in Versions
ASSUME DefaultFloorAssumption == DefaultFloor \in Versions
ASSUME TrustedFloorAssumption == TrustedFloor \in Versions \cup {0}
ASSUME ManifestAssumption == Manifests \subseteq Manifest
ASSUME OperatorAssumption ==
  OperatorCmds \subseteq {"install", "rollback", "mark-good"}
ASSUME StatusAssumption == StatusNames \in Slots \cup {"pending"}
ASSUME OverlapAssumption == Overlap \in BOOLEAN
ASSUME BoundsAssumption == MaxOps \in Nat /\ MaxFaults \in Nat
ASSUME NoStateAssumption ==
  NoState # Corrupt /\ NoState \notin OtaState /\ Corrupt \notin OtaState

Procs == {"gate", "operator"}
Labels == {"down", "gate", "idle", "exit",
           "in_rauc", "in_write", "in_slot", "in_save",
           "mg_load", "mg_rauc", "mg_save", "mg_floor",
           "rb_mark", "rb_load", "rb_save",
           "reboot", "err_load", "err_save"}
Cmds == {"none", "install", "mark-good", "rollback"}

VARIABLES
  env,      \* the bootloader environment
  image,    \* version in each slot; 0 is an empty or half-written slot
  file,     \* /data/suderra/ota as the running system sees it
  disk,     \* /data/suderra/ota as the medium holds it
  tmp,      \* whose temporary file the other process has renamed
  mode,     \* "off" (in the boot chooser), "up" or "halted"
  booted,   \* rauc.slot= on the kernel command line
  pc,       \* where each process is
  cmd,      \* the command it runs
  loc,      \* its copy of the state (`let mut state`)
  ver,      \* the version it installs or marks good, 0 when none
  healthy,  \* the health gate passed in this boot
  marked,   \* history: <<version marked good, version that was running>>
  ops, faults

vars == <<env, image, file, disk, tmp, mode, booted, pc, cmd, loc, ver, healthy,
          marked, ops, faults>>
procVars == <<pc, cmd, loc, ver>>

Max2(a, b) == IF a > b THEN a ELSE b
Target == Other(booted)
Boots(v) == v # 0 /\ v \notin Dead

FileType == [state : OtaState \cup {NoState, Corrupt},
             mirror : Versions \cup {0}]

TypeOK ==
  /\ env \in EnvType
  /\ image \in [Slots -> Versions \cup {0}]
  /\ file \in FileType
  /\ disk \in FileType
  /\ tmp \in [Procs -> {"own", "gone", "torn"}]
  /\ mode \in {"off", "up", "halted"}
  /\ booted \in Slots
  /\ pc \in [Procs -> Labels]
  /\ cmd \in [Procs -> Cmds]
  /\ loc \in [Procs -> OtaState \cup {NoState}]
  /\ ver \in [Procs -> Versions \cup {0}]
  /\ healthy \in BOOLEAN
  /\ marked \in SUBSET (Versions \X (Versions \cup {0}))
  /\ ops \in 0..MaxOps
  /\ faults \in 0..MaxFaults

Init ==
  /\ env = FactoryEnv
  /\ image = [s \in Slots |-> IF s = "A" THEN FactoryVersion ELSE 0]
  /\ file = [state |-> NoState, mirror |-> 0]
  /\ disk = file
  /\ tmp = [p \in Procs |-> "own"]
  /\ mode = "off"
  /\ booted = "A"
  /\ pc = [p \in Procs |-> "down"]
  /\ cmd = [p \in Procs |-> "none"]
  /\ loc = [p \in Procs |-> NoState]
  /\ ver = [p \in Procs |-> 0]
  /\ healthy = FALSE
  /\ marked = {}
  /\ ops = 0
  /\ faults = 0

----------------------------------------------------------------------------
(* Steps shared by the commands.                                           *)

Goto(p, l) == pc' = [pc EXCEPT ![p] = l]
At(p, l) == mode = "up" /\ pc[p] = l
Fault == faults < MaxFaults /\ faults' = faults + 1

(* With Overlap = FALSE a process enters the tool only while the other one  *)
(* is outside it.                                                          *)
MayEnter(p) ==
  Overlap \/ \A q \in Procs \ {p} : pc[q] \in {"gate", "idle", "exit"}

Finished(p) == IF p = "gate" THEN "exit" ELSE "idle"

\* Mutant: the floor mirror is not read.
SeedIgnoresMirror ==
  [current |-> image[booted], floor |-> DefaultFloor, pending |-> 0,
   slot |-> "none"]

(* load_state: the file, or a fresh state seeded from the floor mirror and  *)
(* the running image; the trusted floor is a lower bound of either.         *)
Seed ==
  [current |-> image[booted],
   floor   |-> IF file.mirror # 0 THEN file.mirror ELSE DefaultFloor,
   pending |-> 0,
   slot    |-> "none"]
Stored == IF file.state = NoState THEN Seed ELSE file.state
Loadable == file.state # Corrupt
\* Mutant: the trusted floor is not applied.
LoadedUnclamped == Stored
Loaded == [Stored EXCEPT !.floor = Max2(@, TrustedFloor)]

SaveLabels == {"in_save", "mg_save", "rb_save", "err_save"}

(* p and q write to the same temporary file.                               *)
SharesTmp(p, q) ==
  /\ q # p
  /\ \/ pc[p] \in SaveLabels /\ pc[q] \in SaveLabels
     \/ pc[p] = "mg_floor" /\ pc[q] = "mg_floor"

(* What p renames was opened, or written, by q as well: q's own rename will *)
(* find nothing ("gone"), and a q that has yet to write writes into the     *)
(* file under its new name ("torn").                                       *)
Takes(p, q, how) ==
  /\ SharesTmp(p, q) /\ tmp[q] = "own"
  /\ tmp' = [tmp EXCEPT ![q] = how, ![p] = "own"]

(* The contents p may find in the file it renames: its own text, the one of *)
(* q, or a text that is cut short or ends with the rest of a longer one.    *)
Contents(p, mine, theirs, broken, how) ==
  IF how = "torn" THEN {broken}
  ELSE {theirs, broken} \cup (IF tmp[p] = "own" THEN {mine} ELSE {})

(* save_state: write state.json.tmp, a name the processes share, and rename *)
(* it over state.json.                                                     *)
SaveState(p) ==
  \/ /\ tmp[p] = "own" /\ UNCHANGED tmp
     /\ file' = [file EXCEPT !.state = loc[p]]
  \/ \E q \in Procs : \E how \in {"gone", "torn"} :
       /\ Takes(p, q, how)
       /\ \E s \in Contents(p, loc[p], loc[q], Corrupt, how) :
            file' = [file EXCEPT !.state = s]

(* The same for the floor mirror, where an empty file counts as none.       *)
SaveMirror(p) ==
  \/ /\ tmp[p] = "own" /\ UNCHANGED tmp
     /\ file' = [file EXCEPT !.mirror = loc[p].floor]
  \/ \E q \in Procs : \E how \in {"gone", "torn"} :
       /\ Takes(p, q, how)
       /\ \E f \in Contents(p, loc[p].floor, loc[q].floor, 0, how) :
            file' = [file EXCEPT !.mirror = f]

(* The disk is full, or the like.                                          *)
SaveFails(p) == tmp[p] = "own" /\ Fault /\ UNCHANGED <<file, tmp>>

(* A command returns.  The gate's script answers a failed mark-good with a  *)
(* rollback and ends after anything else.                                  *)
Return(p) ==
  /\ Goto(p, Finished(p))
  /\ cmd' = [cmd EXCEPT ![p] = "none"]
  /\ loc' = [loc EXCEPT ![p] = NoState]
  /\ ver' = [ver EXCEPT ![p] = 0]

ReturnFailed(p) ==
  IF p = "gate" /\ cmd[p] = "mark-good"
    THEN /\ Goto(p, "rb_mark")
         /\ cmd' = [cmd EXCEPT ![p] = "rollback"]
         /\ loc' = [loc EXCEPT ![p] = NoState]
         /\ ver' = [ver EXCEPT ![p] = 0]
    ELSE Return(p)

(* `?` in a command: main() goes on to persist_last_event.                  *)
Bail(p) == Goto(p, "err_load") /\ UNCHANGED <<cmd, loc, ver>>

machine == <<env, image, mode, booted, healthy, marked>>

(* persist_last_event: load the state, then write it back with the error    *)
(* recorded.  Its own errors are ignored.                                  *)
ErrLoad(p) ==
  /\ At(p, "err_load")
  /\ \/ /\ Loadable
        /\ loc' = [loc EXCEPT ![p] = Loaded]
        /\ Goto(p, "err_save")
        /\ UNCHANGED <<cmd, ver, faults>>
     \/ ~Loadable /\ ReturnFailed(p) /\ UNCHANGED faults
     \/ Fault /\ ReturnFailed(p)
  /\ UNCHANGED <<machine, file, disk, tmp, ops>>

ErrSave(p) ==
  /\ At(p, "err_save")
  /\ ReturnFailed(p)
  /\ \/ SaveState(p) /\ UNCHANGED faults
     \/ SaveFails(p)
  /\ UNCHANGED <<machine, disk, ops>>

(* The other process has renamed the temporary file: rename fails, after    *)
(* what was yet to be written has gone into the renamed one.                *)
RenameFails(p) ==
  /\ mode = "up" /\ pc[p] \in SaveLabels \cup {"mg_floor"}
  /\ tmp[p] # "own"
  /\ tmp' = [tmp EXCEPT ![p] = "own"]
  /\ file' = IF tmp[p] = "torn" /\ pc[p] # "mg_floor" /\ file.state = Corrupt
               THEN [file EXCEPT !.state = loc[p]]
             ELSE IF tmp[p] = "torn" /\ pc[p] = "mg_floor" /\ file.mirror = 0
               THEN [file EXCEPT !.mirror = loc[p].floor]
             ELSE file
  /\ IF pc[p] = "err_save" THEN ReturnFailed(p) ELSE Bail(p)
  /\ UNCHANGED <<machine, disk, ops, faults>>

(* request_reboot: an orderly shutdown, so everything written is durable.   *)
PowerOff ==
  /\ mode' = "off"
  /\ pc' = [p \in Procs |-> "down"]
  /\ cmd' = [p \in Procs |-> "none"]
  /\ loc' = [p \in Procs |-> NoState]
  /\ ver' = [p \in Procs |-> 0]
  /\ healthy' = FALSE
  /\ tmp' = [p \in Procs |-> "own"]

Reboot(p) ==
  /\ At(p, "reboot")
  /\ PowerOff
  /\ disk' = file
  /\ UNCHANGED <<env, image, file, booted, marked, ops, faults>>

RebootFails(p) ==
  /\ At(p, "reboot")
  /\ Fault
  /\ Bail(p)
  /\ UNCHANGED <<machine, file, disk, tmp, ops>>

----------------------------------------------------------------------------
(* suderra-ota install                                                     *)

(* verify_manifest_policy on the loaded state.  `authentic` stands for what *)
(* does not depend on the state: schema, signature, target, key epoch,      *)
(* expiry, and the size and digest of the bundle.                          *)
PolicyAccepts(m, s) ==
  /\ m.authentic
  /\ s.current >= m.minCurrent
  /\ m.version >= s.floor
  /\ m.version >= m.floor
  /\ m.floor >= s.floor

(* The operator enters the tool with command c.                            *)
Issue(c) ==
  /\ At("operator", "idle")
  /\ MayEnter("operator")
  /\ c \in OperatorCmds
  /\ ops < MaxOps
  /\ ops' = ops + 1
  /\ cmd' = [cmd EXCEPT !["operator"] = c]

Install(m) ==
  /\ Issue("install")
  /\ IF Loadable /\ PolicyAccepts(m, Loaded)
       THEN /\ loc' = [loc EXCEPT !["operator"] = Loaded]
            /\ ver' = [ver EXCEPT !["operator"] = m.version]
            /\ Goto("operator", "in_rauc")
       ELSE /\ Goto("operator", "err_load")
            /\ UNCHANGED <<loc, ver>>
  /\ UNCHANGED <<machine, file, disk, tmp, faults>>

(* `rauc install`: the inactive slot is marked bad and written, with the    *)
(* slot hook copying its boot image to /boot; then it is activated.         *)
RaucInstallBegin(p) ==
  /\ At(p, "in_rauc")
  /\ env' = RaucMarkBad(env, Target)
  /\ image' = [image EXCEPT ![Target] = 0]
  /\ Goto(p, "in_write")
  /\ UNCHANGED <<file, disk, tmp, mode, booted, cmd, loc, ver, healthy, marked,
                 ops, faults>>

\* Mutant: the slot hook writes to the slot that runs.
RaucInstallEndInPlace(p) ==
  /\ At(p, "in_write")
  /\ env' \in RaucActivate(env, Target)
  /\ image' = [image EXCEPT ![booted] = ver[p]]
  /\ Goto(p, "in_slot")
  /\ UNCHANGED <<file, disk, tmp, mode, booted, cmd, loc, ver, healthy, marked,
                 ops, faults>>

RaucInstallEnd(p) ==
  /\ At(p, "in_write")
  /\ env' \in RaucActivate(env, Target)
  /\ image' = [image EXCEPT ![Target] = ver[p]]
  /\ Goto(p, "in_slot")
  /\ UNCHANGED <<file, disk, tmp, mode, booted, cmd, loc, ver, healthy, marked,
                 ops, faults>>

(* run_rauc returned an error: the bundle is refused, or writing it fails.  *)
RaucInstallFails(p) ==
  /\ At(p, "in_rauc") \/ At(p, "in_write")
  /\ Fault
  /\ Bail(p)
  /\ UNCHANGED <<machine, file, disk, tmp, ops>>

\* Mutant: the booted slot is recorded.
PendingSlotIsBooted(p) ==
  /\ At(p, "in_slot")
  /\ loc' = [loc EXCEPT ![p].pending = ver[p], ![p].slot = booted]
  /\ Goto(p, "in_save")
  /\ UNCHANGED <<machine, file, disk, tmp, cmd, ver, ops, faults>>

(* find_slot_value: the output of `rauc status` names the slot of the next  *)
(* boot under pending_boot_slot, or the first bootname in it is taken.      *)
NamedSlot == IF StatusNames = "pending" THEN env.primary ELSE StatusNames

(* pending_boot_slot_after_install: the slot that `rauc status` names, or   *)
(* an error when it names none.                                            *)
PendingSlot(p) ==
  /\ At(p, "in_slot")
  /\ \/ /\ loc' = [loc EXCEPT ![p].pending = ver[p], ![p].slot = NamedSlot]
        /\ Goto(p, "in_save")
        /\ UNCHANGED <<cmd, ver, faults>>
     \/ Fault /\ Bail(p)
  /\ UNCHANGED <<machine, file, disk, tmp, ops>>

\* Mutant: the floor advances at install.
InstallSaveRaisesFloor(p) ==
  /\ At(p, "in_save")
  /\ file' = [file EXCEPT !.state =
                [loc[p] EXCEPT !.floor = Max2(@, ver[p])]]
  /\ Goto(p, "reboot")
  /\ UNCHANGED <<machine, disk, tmp, cmd, loc, ver, ops, faults>>

(* save_state, then request_reboot unless --no-reboot was given.            *)
InstallSave(p) ==
  /\ At(p, "in_save")
  /\ \/ /\ SaveState(p)
        /\ \/ Goto(p, "reboot") /\ UNCHANGED <<cmd, loc, ver>>
           \/ Return(p)
        /\ UNCHANGED faults
     \/ SaveFails(p) /\ Bail(p)
  /\ UNCHANGED <<machine, disk, ops>>

----------------------------------------------------------------------------
(* suderra-ota mark-good                                                   *)

MarkGood(v) ==
  /\ Issue("mark-good")
  /\ ver' = [ver EXCEPT !["operator"] = v]
  /\ Goto("operator", "mg_load")
  /\ UNCHANGED <<machine, file, disk, tmp, loc, faults>>

(* The version to mark: --version, or the pending one.                      *)
VersionToMark(p, s) == IF ver[p] # 0 THEN ver[p] ELSE s.pending

\* Mutant: the slot is not checked.
MayMarkGoodAnySlot(p, s) ==
  LET v == VersionToMark(p, s)
  IN  v # 0 /\ (s.pending # 0 => s.pending = v) /\ v >= s.floor
\* Mutant: a version equal to the floor is refused.
MayMarkGoodStrict(p, s) ==
  LET v == VersionToMark(p, s)
  IN  /\ v # 0
      /\ s.pending # 0 => s.pending = v
      /\ s.slot # "none" => s.slot = booted
      /\ v > s.floor

(* The checks of mark_good before it calls RAUC.                            *)
MayMarkGood(p, s) ==
  LET v == VersionToMark(p, s)
  IN  /\ v # 0
      /\ s.pending # 0 => s.pending = v
      /\ s.slot # "none" => s.slot = booted
      /\ v >= s.floor

MarkGoodLoad(p) ==
  /\ At(p, "mg_load")
  /\ \/ /\ Loadable
        /\ MayMarkGood(p, Loaded)
        /\ loc' = [loc EXCEPT ![p] = Loaded]
        /\ ver' = [ver EXCEPT ![p] = VersionToMark(p, Loaded)]
        /\ Goto(p, "mg_rauc")
        /\ UNCHANGED <<cmd, faults>>
     \/ ~(Loadable /\ MayMarkGood(p, Loaded)) /\ Bail(p) /\ UNCHANGED faults
     \/ Fault /\ Bail(p)
  /\ UNCHANGED <<machine, file, disk, tmp, ops>>

(* `rauc status mark-good` marks the booted slot.                           *)
MarkGoodRauc(p) ==
  /\ At(p, "mg_rauc")
  /\ \/ /\ env' = RaucMarkGood(env, booted)
        /\ marked' = marked \cup {<<ver[p], image[booted]>>}
        /\ loc' = [loc EXCEPT ![p] =
                     [current |-> ver[p], floor |-> Max2(ver[p], @.floor),
                      pending |-> 0, slot |-> "none"]]
        /\ Goto(p, "mg_save")
        /\ UNCHANGED <<cmd, ver, faults>>
     \/ Fault /\ Bail(p) /\ UNCHANGED <<env, marked>>
  /\ UNCHANGED <<image, file, disk, tmp, mode, booted, healthy, ops>>

MarkGoodSave(p) ==
  /\ At(p, "mg_save")
  /\ \/ /\ SaveState(p)
        /\ Goto(p, "mg_floor")
        /\ UNCHANGED <<cmd, loc, ver, faults>>
     \/ SaveFails(p) /\ Bail(p)
  /\ UNCHANGED <<machine, disk, ops>>

(* persist_rollback_floor: the mirror is a file of its own.                 *)
PersistFloor(p) ==
  /\ At(p, "mg_floor")
  /\ \/ /\ SaveMirror(p)
        /\ Return(p)
        /\ UNCHANGED faults
     \/ SaveFails(p) /\ Bail(p)
  /\ UNCHANGED <<machine, disk, ops>>

----------------------------------------------------------------------------
(* suderra-ota rollback                                                    *)

Rollback ==
  /\ Issue("rollback")
  /\ Goto("operator", "rb_mark")
  /\ UNCHANGED <<machine, file, disk, tmp, loc, ver, faults>>

(* `rauc status mark-bad` marks the booted slot, before anything is read.   *)
RollbackMark(p) ==
  /\ At(p, "rb_mark")
  /\ \/ /\ env' = RaucMarkBad(env, booted)
        /\ Goto(p, "rb_load")
        /\ UNCHANGED <<cmd, loc, ver, faults>>
     \/ Fault /\ Bail(p) /\ UNCHANGED env
  /\ UNCHANGED <<image, file, disk, tmp, mode, booted, healthy, marked, ops>>

\* Mutant: rollback starts from a default state.
RollbackForgetsFloor(p) ==
  /\ At(p, "rb_load")
  /\ \/ /\ Loadable
        /\ loc' = [loc EXCEPT ![p] = [Loaded EXCEPT !.floor = DefaultFloor,
                                                    !.pending = 0, !.slot = "none"]]
        /\ Goto(p, "rb_save")
        /\ UNCHANGED <<cmd, ver, faults>>
     \/ ~Loadable /\ Bail(p) /\ UNCHANGED faults
  /\ UNCHANGED <<machine, file, disk, tmp, ops>>

RollbackLoad(p) ==
  /\ At(p, "rb_load")
  /\ \/ /\ Loadable
        /\ loc' = [loc EXCEPT ![p] = [Loaded EXCEPT !.pending = 0,
                                                    !.slot = "none"]]
        /\ Goto(p, "rb_save")
        /\ UNCHANGED <<cmd, ver, faults>>
     \/ ~Loadable /\ Bail(p) /\ UNCHANGED faults
     \/ Fault /\ Bail(p)
  /\ UNCHANGED <<machine, file, disk, tmp, ops>>

(* The operator may give --no-reboot; the gate does not.                    *)
RollbackSave(p) ==
  /\ At(p, "rb_save")
  /\ \/ /\ SaveState(p)
        /\ \/ Goto(p, "reboot") /\ UNCHANGED <<cmd, loc, ver>>
           \/ p = "operator" /\ Return(p)
        /\ UNCHANGED faults
     \/ SaveFails(p) /\ Bail(p)
  /\ UNCHANGED <<machine, disk, ops>>

----------------------------------------------------------------------------
(* suderra-rauc-mark-good, started once per boot.                           *)

HealthGatePasses ==
  /\ At("gate", "gate")
  /\ MayEnter("gate")
  /\ image[booted] \notin Unhealthy
  /\ healthy' = TRUE
  /\ Goto("gate", "mg_load")
  /\ cmd' = [cmd EXCEPT !["gate"] = "mark-good"]
  /\ UNCHANGED <<env, image, file, disk, tmp, mode, booted, loc, ver, marked, ops,
                 faults>>

(* The image is unhealthy, or something the gate looks at is not up yet.    *)
HealthGateFails ==
  /\ At("gate", "gate")
  /\ MayEnter("gate")
  /\ \/ image[booted] \in Unhealthy /\ UNCHANGED faults
     \/ Fault
  /\ Goto("gate", "rb_mark")
  /\ cmd' = [cmd EXCEPT !["gate"] = "rollback"]
  /\ UNCHANGED <<machine, file, disk, tmp, loc, ver, ops>>

(* The script runs under `set -e`: when it cannot record the boot state     *)
(* under /data/rauc it ends, before mark-good and without a rollback.       *)
GateAborts ==
  /\ At("gate", "gate")
  /\ Fault
  /\ healthy' = (image[booted] \notin Unhealthy)
  /\ Goto("gate", "exit")
  /\ UNCHANGED <<env, image, file, disk, tmp, mode, booted, cmd, loc, ver, marked,
                 ops>>

----------------------------------------------------------------------------
(* The machine.                                                            *)

BootUserspace(s) ==
  /\ mode = "off"
  /\ Picks(env, s)
  /\ Boots(image[s])
  /\ env' = Attempt(env, s)
  /\ mode' = "up"
  /\ booted' = s
  /\ pc' = [p \in Procs |-> IF p = "gate" THEN "gate" ELSE "idle"]
  /\ UNCHANGED <<image, file, disk, tmp, cmd, loc, ver, healthy, marked, ops,
                 faults>>

(* The kernel panics (panic=10), or the boot image is refused: reset.       *)
BootPanics(s) ==
  /\ mode = "off"
  /\ Picks(env, s)
  /\ ~Boots(image[s])
  /\ env' = Attempt(env, s)
  /\ UNCHANGED <<image, file, disk, tmp, mode, booted, procVars, healthy, marked,
                 ops, faults>>

(* GRUB halts; the U-Boot script resets and finds the same environment.     *)
NoBootableSlot ==
  /\ mode = "off"
  /\ NoneBootable(env)
  /\ mode' = IF Backend = "grub" THEN "halted" ELSE "off"
  /\ UNCHANGED <<env, image, file, disk, tmp, booted, procVars, healthy, marked,
                 ops, faults>>

PowerCycle ==
  /\ mode = "halted"
  /\ mode' = "off"
  /\ UNCHANGED <<env, image, file, disk, tmp, booted, procVars, healthy, marked,
                 ops, faults>>

(* An idle device is restarted for reasons of its own.                      *)
PlannedReboot ==
  /\ At("gate", "exit") /\ At("operator", "idle")
  /\ PowerOff
  /\ disk' = file
  /\ UNCHANGED <<env, image, file, booted, marked, ops, faults>>

(* The kernel writes dirty pages back.                                      *)
Writeback ==
  /\ mode = "up"
  /\ disk # file
  /\ disk' = file
  /\ UNCHANGED <<machine, procVars, file, tmp, ops, faults>>

(* save_state does not fsync.  After a power loss each file is the new or   *)
(* the old one; a state.json that was renamed into place may also be there  *)
(* without its contents.  The mirror is synced before it is renamed.        *)
PowerLoss ==
  /\ mode = "up"
  /\ Fault
  /\ PowerOff
  /\ file' \in [state : {disk.state, file.state}
                          \cup (IF disk.state # file.state
                                THEN {Corrupt} ELSE {}),
                mirror : {disk.mirror, file.mirror}]
  /\ disk' = file'
  /\ UNCHANGED <<env, image, booted, marked, ops>>

(* /data is recreated empty between two boots.                              *)
DataReset ==
  /\ mode = "off"
  /\ Fault
  /\ file.state # NoState \/ file.mirror # 0
  /\ file' = [state |-> NoState, mirror |-> 0]
  /\ disk' = file'
  /\ UNCHANGED <<machine, procVars, tmp, ops>>

----------------------------------------------------------------------------
ToolStep(p) ==
  \/ ErrLoad(p) \/ ErrSave(p) \/ RenameFails(p) \/ Reboot(p) \/ RebootFails(p)
  \/ RaucInstallBegin(p) \/ RaucInstallEnd(p) \/ RaucInstallFails(p)
  \/ PendingSlot(p) \/ InstallSave(p)
  \/ MarkGoodLoad(p) \/ MarkGoodRauc(p) \/ MarkGoodSave(p) \/ PersistFloor(p)
  \/ RollbackMark(p) \/ RollbackLoad(p) \/ RollbackSave(p)

Operator ==
  \/ \E m \in Manifests : Install(m)
  \/ \E v \in Versions \cup {0} : MarkGood(v)
  \/ Rollback

Gate == HealthGatePasses \/ HealthGateFails \/ GateAborts

Chooser ==
  \/ \E s \in Slots : BootUserspace(s) \/ BootPanics(s)
  \/ NoBootableSlot

Next ==
  \/ \E p \in Procs : ToolStep(p)
  \/ Operator \/ Gate \/ Chooser
  \/ PowerCycle \/ PlannedReboot \/ Writeback \/ PowerLoss \/ DataReset

Spec == Init /\ [][Next]_vars

(* The boot chooser and a started process run; nobody has to issue a        *)
(* command, power-cycle a halted device or fail.                            *)
Fairness ==
  /\ \A p \in Procs : WF_vars(ToolStep(p))
  /\ WF_vars(Gate)
  /\ WF_vars(Chooser)
FairSpec == Spec /\ Fairness

----------------------------------------------------------------------------
(* Properties.                                                             *)

MarkedVersions == {m[1] : m \in marked}
Proven(f) == f \in {0, DefaultFloor, TrustedFloor} \cup MarkedVersions
InstallLabels == {"in_rauc", "in_write", "in_slot", "in_save"}

(* mark_good advances the rollback floor only after `rauc status mark-good` *)
(* succeeded for that version: whatever crashes, fails or overlaps, a floor *)
(* found in state.json or in its mirror, cached or on the medium, is the    *)
(* initial one, the trusted one or a version RAUC has marked good.          *)
FloorProven ==
  \A f \in {file, disk} :
    /\ Proven(f.mirror)
    /\ f.state \in OtaState => Proven(f.state.floor)

(* The trusted floor is a lower bound load_state never drops: no slot is    *)
(* ever written with a version below it, even when /data has been reset,    *)
(* state.json was lost in a power cut or two commands overlap.              *)
WritesAboveTrustedFloor ==
  [][\A s \in Slots :
       image'[s] \notin {0, image[s]} => image'[s] >= TrustedFloor]_vars

(* The floor that load_state would return for files f.                      *)
EffectiveFloor(f) ==
  Max2(IF f.state # NoState THEN f.state.floor
       ELSE IF f.mirror # 0 THEN f.mirror ELSE DefaultFloor,
       TrustedFloor)

(* The rollback floor is monotone: the floor a command would load never     *)
(* moves back, except when a power cut or a reset of /data takes the file   *)
(* away.  A state.json that does not parse refuses every command.           *)
FloorMonotone ==
  [][ \/ PowerLoss \/ DataReset
      \/ Corrupt \in {file.state, file'.state}
      \/ EffectiveFloor(file') >= EffectiveFloor(file) ]_vars

(* What verify_manifest_policy refuses stays refused: the version written   *)
(* into a slot is not below the rollback floor at the time of the write.    *)
WritesAboveFloor ==
  [][\A s \in Slots :
       image'[s] \notin {0, image[s]} =>
         /\ file.state # Corrupt
         /\ image'[s] >= EffectiveFloor(file)]_vars

(* Commands do not overlap and nothing fails; the operator leaves mark-good *)
(* to the gate, and `rauc status' names the slot of the next boot.          *)
Undisturbed ==
  /\ Overlap = FALSE /\ MaxFaults = 0
  /\ "mark-good" \notin OperatorCmds
  /\ StatusNames = "pending"

(* The slot that runs and the rollback floor, as an A/B updater sees them.  *)
(* A state.json that does not parse refuses every command, so it counts as  *)
(* a floor above every version.                                            *)
Running == IF mode = "up" THEN booted ELSE "none"
Floor == IF file.state = Corrupt THEN MaxVersion + 1 ELSE EffectiveFloor(file)

AB == INSTANCE ABUpdate WITH
        Lost      <- MaxVersion + 1,
        Disturbed <- ~Undisturbed,
        running   <- Running,
        floor     <- Floor

(* While commands do not overlap, every step of the tool, of the gate, of   *)
(* the boot choosers and of a power cut is a step of an A/B updater, or     *)
(* none: the running slot is never written, the other one only above the    *)
(* floor, and the floor moves only up to a version that was marked good, on *)
(* an undisturbed device the running one.                                  *)
ImplementsABUpdate == AB!Spec

(* mark_good never reads which image is running; the slot check has to      *)
(* make sure that the version it records as current is the one that runs.   *)
MarkedVersionRan == \A m \in marked : m[1] = m[2]

(* A pending update that state.json announces is in the slot it names, once *)
(* no install is under way.                                                *)
PendingIsInstalled ==
  (file.state \in OtaState /\ pc["operator"] \notin InstallLabels)
    => (file.state.pending # 0 => image[file.state.slot] = file.state.pending)

(* Boot fallback: while some bootable slot holds an image that works, the   *)
(* boot chooser does not keep the device from reaching userspace.           *)
ReachesUserspace ==
  (mode = "off" /\ \E s \in Slots : Bootable(env, s) /\ Boots(image[s]))
    ~> (mode = "up")

(* grub.cfg starts a slot with OK = 1 again and again, whether it works or  *)
(* not.                                                                    *)
Retried ==
  /\ mode = "off" /\ Backend = "grub"
  /\ \E s \in Slots : Picks(env, s) /\ ~Boots(image[s])
                        /\ env.ok[s] = 1 /\ env.try[s] = 0

(* What is left of the fallback on GRUB, whatever an activation writes: a   *)
(* working slot is reached, or the boot chooser is at a dead image that has *)
(* OK = 1.  ADR-0004 promises the fallback without the second case; RAUC    *)
(* must not leave OK = 1 before an image has been marked good.              *)
FallsBackOrRetries ==
  (mode = "off" /\ \E s \in Slots : Bootable(env, s) /\ Boots(image[s]))
    ~> (mode = "up" \/ Retried)

(* An accepted install of a healthy image that goes on to its reboot is     *)
(* marked good by the next boot, unless something fails or the operator     *)
(* gives another command on the way.  Stated for a device's first command:  *)
(* see HealthyBootStaysBootable for the boots after it.                     *)
GoodUpdateMarked ==
  \A v \in Versions \ (Dead \cup Unhealthy) :
    (pc["operator"] = "reboot" /\ cmd["operator"] = "install"
       /\ ver["operator"] = v /\ ops = 1)
      ~> (v \in MarkedVersions \/ faults > 0 \/ ops > 1)

(* docs/operations/ota.md: the gate rolls back when a health check fails.   *)
(* On a device nobody updates or rolls back, the slot of a boot that passed *)
(* the gate is still bootable.                                             *)
HealthyBootStaysBootable == healthy => Bootable(env, booted)
=============================================================================
