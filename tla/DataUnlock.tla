----------------------------- MODULE DataUnlock -----------------------------
(***************************************************************************)
(* suderra-data-unlock: on every boot, before firstboot, the agent and the  *)
(* firewall, it brings up /data.  On a production image it formats a blank  *)
(* partition as LUKS2, seals the key to the TPM and makes the filesystem,   *)
(* once; afterwards it only unlocks and mounts.  On a development image it  *)
(* mounts the ext4 partition labelled SUDERRA-DATA.                         *)
(*                                                                         *)
(* A step ends where something on the medium has changed, or where a call   *)
(* may fail: a power cut may come between any two of them.                  *)
(***************************************************************************)
EXTENDS Naturals

CONSTANTS
  HasTpm,     \* /dev/tpmrm0 or /dev/tpm0 is there
  MaxPcr,     \* bound on changes of PCR7 (secure boot policy updates)
  MaxFaults   \* bound on power cuts and failing calls

ASSUME HasTpmAssumption == HasTpm \in BOOLEAN
ASSUME BoundAssumption == MaxPcr \in Nat /\ MaxFaults \in Nat

Binds == 3   \* /var/lib/suderra, /var/log/suderra, /opt/suderra/edge/releases

VARIABLES
  variant,  \* VARIANT= of /etc/os-release
  sig,      \* what the partition carries: "blank", "ext4" or "luks"
  slots,    \* the key slots of its LUKS header
  fs,       \* there is a filesystem inside the LUKS volume
  sealed,   \* the PCR7 value the TPM slot is bound to
  pcr,      \* PCR7 of this boot
  owner,    \* the owner's data on the partition: "none", "kept" or "lost"
  pc,       \* where the script is; "up" and "failed" are its ends
  misread,  \* history: the probes this run of the script has misread
  fresh,    \* fresh=1
  key,      \* the ephemeral key is in /run
  mapper,   \* /dev/mapper/suderra-data exists
  mounted,  \* /data is mounted
  binds,    \* how many of the bind mounts are there
  faults

vars == <<variant, sig, slots, fs, sealed, pcr, owner, pc, misread, fresh, key,
          mapper, mounted, binds, faults>>
medium == <<variant, sig, slots, fs, sealed, owner>>
kernel == <<mapper, mounted, binds>>

Provisioning == {"provision", "format", "enroll", "erase", "wipe"}
Labels == Provisioning \cup {"off", "start", "check", "attach", "mkfs", "mount",
                             "mountdev", "bind", "up", "failed"}

TypeOK ==
  /\ variant \in {"prod", "dev"}
  /\ sig \in {"blank", "ext4", "luks"}
  /\ slots \in SUBSET {"password", "tpm"}
  /\ sealed \in 0..MaxPcr /\ pcr \in 0..MaxPcr
  /\ owner \in {"none", "kept", "lost"}
  /\ pc \in Labels
  /\ misread \subseteq {"isLuks", "blkid"}
  /\ {fs, fresh, key, mapper, mounted} \subseteq BOOLEAN
  /\ binds \in 0..Binds
  /\ faults \in 0..MaxFaults

(* A blank partition, or an ext4 one with or without the owner's files.     *)
Init ==
  /\ variant \in {"prod", "dev"}
  /\ \/ sig = "blank" /\ owner = "none"
     \/ sig = "ext4" /\ owner \in {"none", "kept"}
  /\ slots = {} /\ fs = FALSE
  /\ sealed = 0 /\ pcr = 0
  /\ pc = "off" /\ misread = {}
  /\ fresh = FALSE /\ key = FALSE
  /\ mapper = FALSE /\ mounted = FALSE /\ binds = 0
  /\ faults = 0

Goto(l) == pc' = l
Fault == faults < MaxFaults /\ faults' = faults + 1
Destroys == owner' = IF owner = "kept" THEN "lost" ELSE owner

----------------------------------------------------------------------------
(* The script.                                                             *)

Start ==
  /\ pc = "start"
  /\ fresh' = FALSE /\ misread' = {}
  /\ Goto(IF variant = "prod" THEN "check" ELSE "mountdev")
  /\ UNCHANGED <<medium, pcr, key, kernel, faults>>

(* `cryptsetup isLuks`: any exit status but 0 counts as "not LUKS", that of *)
(* a read error or a busy device too.                                      *)
IsLuks ==
  /\ pc = "check"
  /\ \/ /\ Goto(IF sig = "luks" THEN "attach" ELSE "provision")
        /\ UNCHANGED <<misread, faults>>
     \/ /\ sig = "luks" /\ Fault
        /\ Goto("provision")
        /\ misread' = misread \cup {"isLuks"}
  /\ UNCHANGED <<medium, pcr, fresh, key, kernel>>

\* Mutant: blkid is not asked.
MayFormatAny == HasTpm

(* blkid finds nothing, and there is a TPM.                                 *)
MayFormat == sig = "blank" /\ HasTpm

(* `if blkid`: any exit status but 0 counts as "blank".  Whatever else is   *)
(* missing before luksFormat ends the script.                              *)
Blkid ==
  /\ pc = "provision"
  /\ \/ /\ Goto(IF MayFormat THEN "format" ELSE "failed")
        /\ UNCHANGED <<misread, faults>>
     \/ /\ sig # "blank" /\ Fault
        /\ Goto(IF HasTpm THEN "format" ELSE "failed")
        /\ misread' = misread \cup {"blkid"}
  /\ UNCHANGED <<medium, pcr, fresh, key, kernel>>

(* The new header, and what was on the partition is gone.                   *)
WritesHeader ==
  /\ ~mapper
  /\ sig' = "luks" /\ slots' \in {{}, {"password"}}
  /\ fs' = FALSE
  /\ Destroys

(* A luksFormat that fails has written nothing, the header, or the header   *)
(* and its key slot.  It refuses a device that the mapper holds.            *)
LuksFormat ==
  /\ pc = "format"
  /\ \/ /\ WritesHeader /\ slots' # {}
        /\ key' = TRUE
        /\ Goto("enroll")
        /\ UNCHANGED faults
     \/ WritesHeader /\ Fault /\ Goto("failed") /\ UNCHANGED key
     \/ /\ Fault \/ (mapper /\ UNCHANGED faults)
        /\ Goto("failed")
        /\ UNCHANGED <<sig, slots, fs, owner, key>>
  /\ UNCHANGED <<variant, sealed, pcr, misread, fresh, kernel>>

Enroll ==
  /\ pc = "enroll"
  /\ \/ /\ slots' = slots \cup {"tpm"}
        /\ sealed' = pcr
        /\ Goto("wipe")
        /\ UNCHANGED faults
     \/ /\ Fault
        /\ Goto("erase")
        /\ UNCHANGED <<slots, sealed>>
  /\ UNCHANGED <<variant, sig, fs, owner, pcr, misread, fresh, key, kernel>>

(* `cryptsetup erase || true` destroys every key slot.  The header stays.   *)
Erase ==
  /\ pc = "erase"
  /\ \/ slots' = {} /\ UNCHANGED faults
     \/ Fault /\ UNCHANGED slots
  /\ key' = FALSE
  /\ Goto("failed")
  /\ UNCHANGED <<variant, sig, fs, sealed, owner, pcr, misread, fresh, kernel>>

\* Mutant: every slot is wiped.
WipeAll ==
  /\ pc = "wipe"
  /\ slots' = {} /\ UNCHANGED faults
  /\ key' = FALSE
  /\ fresh' = TRUE
  /\ Goto("attach")
  /\ UNCHANGED <<variant, sig, fs, sealed, owner, pcr, misread, kernel>>
\* Mutant: the key file is kept.
WipeKeepsKey ==
  /\ pc = "wipe"
  /\ slots' = slots \ {"password"}
  /\ fresh' = TRUE
  /\ Goto("attach")
  /\ UNCHANGED <<variant, sig, fs, sealed, owner, pcr, misread, key, kernel,
                 faults>>

(* `--wipe-slot=password || true`.                                          *)
Wipe ==
  /\ pc = "wipe"
  /\ \/ slots' = slots \ {"password"} /\ UNCHANGED faults
     \/ Fault /\ UNCHANGED slots
  /\ key' = FALSE
  /\ fresh' = TRUE
  /\ Goto("attach")
  /\ UNCHANGED <<variant, sig, fs, sealed, owner, pcr, misread, kernel>>

Opens == mapper \/ ("tpm" \in slots /\ sealed = pcr)

(* The header must be LUKS2; a mapper that exists is used as it is.         *)
Attach ==
  /\ pc = "attach"
  /\ \/ /\ Opens
        /\ mapper' = TRUE
        /\ Goto(IF fresh THEN "mkfs" ELSE "mount")
        /\ UNCHANGED faults
     \/ /\ ~Opens
        /\ Goto("failed")
        /\ UNCHANGED <<mapper, faults>>
     \/ Fault /\ Goto("failed") /\ UNCHANGED mapper
  /\ UNCHANGED <<medium, pcr, misread, fresh, key, mounted, binds>>

Mkfs ==
  /\ pc = "mkfs"
  /\ Destroys
  /\ \/ fs' = TRUE /\ Goto("mount") /\ UNCHANGED faults
     \/ fs' = FALSE /\ Fault /\ Goto("failed")
  /\ UNCHANGED <<variant, sig, slots, sealed, pcr, misread, fresh, key, kernel>>

\* Mutant: /data is mounted only on the boot that made it.
MountFresh ==
  /\ pc = "mount"
  /\ mounted' = (mounted \/ fresh)
  /\ Goto(IF mounted' THEN "bind" ELSE "failed")
  /\ UNCHANGED <<medium, pcr, misread, fresh, key, mapper, binds, faults>>

Mount ==
  /\ pc = "mount"
  /\ \/ /\ mounted' = (mounted \/ fs)
        /\ Goto(IF mounted' THEN "bind" ELSE "failed")
        /\ UNCHANGED faults
     \/ ~mounted /\ Fault /\ Goto("failed") /\ UNCHANGED mounted
  /\ UNCHANGED <<medium, pcr, misread, fresh, key, mapper, binds>>

MountDev ==
  /\ pc = "mountdev"
  /\ \/ /\ mounted' = (mounted \/ sig = "ext4")
        /\ Goto(IF mounted' THEN "bind" ELSE "failed")
        /\ UNCHANGED faults
     \/ ~mounted /\ Fault /\ Goto("failed") /\ UNCHANGED mounted
  /\ UNCHANGED <<medium, pcr, misread, fresh, key, mapper, binds>>

\* Mutant: bind mounts are made again although they are there.
BindAgain ==
  /\ pc = "bind"
  /\ binds' = binds + 1
  /\ Goto(IF binds < Binds THEN "bind" ELSE "up")
  /\ UNCHANGED <<medium, pcr, misread, fresh, key, mapper, mounted, faults>>

(* mount_data_bindings: what is there already is skipped.                   *)
Bind ==
  /\ pc = "bind"
  /\ \/ binds = Binds /\ Goto("up") /\ UNCHANGED <<binds, faults>>
     \/ binds < Binds /\ binds' = binds + 1 /\ UNCHANGED <<pc, faults>>
     \/ binds < Binds /\ Fault /\ Goto("failed") /\ UNCHANGED binds
  /\ UNCHANGED <<medium, pcr, misread, fresh, key, mapper, mounted>>

Script ==
  \/ Start \/ IsLuks \/ Blkid \/ LuksFormat \/ Enroll \/ Erase \/ Wipe
  \/ Attach \/ Mkfs \/ Mount \/ MountDev \/ Bind

----------------------------------------------------------------------------
(* Around the script.                                                      *)

(* Once /data is up the services write to it.                               *)
WriteData ==
  /\ pc = "up" /\ owner = "none"
  /\ owner' = "kept"
  /\ UNCHANGED <<variant, sig, slots, fs, sealed, pcr, pc, misread, fresh, key,
                 kernel, faults>>

(* Everything in memory is gone, the key file too.                          *)
PowerOff ==
  /\ Goto("off")
  /\ misread' = {} /\ fresh' = FALSE /\ key' = FALSE
  /\ mapper' = FALSE /\ mounted' = FALSE /\ binds' = 0
  /\ UNCHANGED <<medium, pcr>>

Reboot == pc \in {"up", "failed"} /\ PowerOff /\ UNCHANGED faults
PowerCut == pc # "off" /\ Fault /\ PowerOff

PowerOn ==
  /\ pc = "off"
  /\ Goto("start")
  /\ UNCHANGED <<medium, pcr, misread, fresh, key, kernel, faults>>

(* `systemctl restart suderra-data.service` in the same boot.               *)
Restart ==
  /\ pc \in {"failed", "up"}
  /\ Goto("start")
  /\ UNCHANGED <<medium, pcr, misread, fresh, key, kernel, faults>>

(* The secure boot policy is updated between two boots.                     *)
PolicyUpdate ==
  /\ pc = "off" /\ pcr < MaxPcr
  /\ pcr' = pcr + 1
  /\ UNCHANGED <<medium, pc, misread, fresh, key, kernel, faults>>

Next ==
  \/ Script \/ WriteData \/ Reboot \/ PowerCut \/ PowerOn \/ Restart
  \/ PolicyUpdate

Spec == Init /\ [][Next]_vars

(* The script runs, and a device on which it has failed is started again.   *)
FairSpec ==
  /\ Spec
  /\ WF_vars(Script) /\ WF_vars(PowerOn)
  /\ SF_vars(pc = "failed" /\ Reboot)

----------------------------------------------------------------------------
(* Properties.                                                             *)

(* The owner's data goes only in a run of the script in which blkid did not *)
(* answer, and that of a LUKS volume only when isLuks did not either:       *)
(* nothing else that fails, and no power cut, restart or policy update,     *)
(* leads to luksFormat or mkfs over data.  The script's comment, "never     *)
(* format a partition that already carries data", is true up to those two   *)
(* probes, whose failure it takes for the answer "blank".                   *)
DataSurvives ==
  [][owner = "kept" /\ owner' # "kept" =>
       /\ "blkid" \in misread
       /\ sig = "luks" => "isLuks" \in misread]_vars

(* On a production image /data is never anything but the volume the TPM     *)
(* opens, and the ephemeral key is gone by then.                            *)
SealedAtRest ==
  (variant = "prod" /\ mounted)
    => sig = "luks" /\ "tpm" \in slots /\ mapper /\ ~key

(* The first boot of a blank device with a TPM brings up /data, unless      *)
(* something fails on the way.                                             *)
FirstBootProvisions ==
  (variant = "prod" /\ sig = "blank" /\ HasTpm)
    ~> (pc = "up" \/ faults > 0 \/ pcr > 0)

(* A volume that has been provisioned comes back after every failure, as    *)
(* long as PCR7 does not change and blkid answers.                          *)
ProvisionedComesBack ==
  (variant = "prod" /\ fs /\ sealed = pcr)
    ~> (pc = "up" \/ sealed # pcr \/ "blkid" \in misread)
=============================================================================
