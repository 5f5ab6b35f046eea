-------------------------- MODULE DataUnlockProofs --------------------------
(***************************************************************************)
(* suderra-data-unlock destroys the owner's data only when the probes that  *)
(* look for it do not answer, and never mounts /data of a production image  *)
(* from anything but the sealed volume: for any number of power cuts,       *)
(* failing calls and policy updates.                                       *)
(***************************************************************************)
EXTENDS DataUnlock, TLAPS

ProdLabels == Provisioning \cup {"check", "attach", "mkfs", "mount"}

(* What the script has established at each point of the production path.   *)
Path ==
  /\ pc \in ProdLabels => variant = "prod"
  /\ pc = "mountdev" => variant = "dev"
  /\ pc = "check" => ~fresh
  /\ pc \in {"enroll", "erase", "wipe"} => ~mapper
  /\ pc \in {"mkfs", "mount"} => mapper
  /\ key => pc \in {"enroll", "erase", "wipe"}

(* A volume that is open, or may yet be formatted.                          *)
Volume ==
  /\ mapper => variant = "prod" /\ sig = "luks" /\ "tpm" \in slots
  /\ (variant = "prod" /\ mounted) => mapper
  /\ mounted => sig # "blank"
  /\ pc \in {"bind", "up"} => mounted
  /\ sig = "blank" => owner = "none"
  /\ pc \in {"enroll", "erase", "wipe", "mkfs"} => owner # "kept"
  /\ pc \in {"enroll", "erase", "wipe"} => sig = "luks"
  /\ pc = "wipe" => "tpm" \in slots
  /\ (pc = "attach" /\ fresh) => owner # "kept"
  /\ pc = "attach" => sig = "luks"

(* What has to have gone wrong before a partition that is not blank is      *)
(* formatted.                                                              *)
Misreads ==
  /\ pc \in {"provision", "format"} /\ sig = "luks" => "isLuks" \in misread
  /\ pc = "format" /\ sig # "blank" => "blkid" \in misread

(* TypeOK without its Boolean variables, and those.                         *)
Discrete ==
  /\ variant \in {"prod", "dev"}
  /\ sig \in {"blank", "ext4", "luks"}
  /\ slots \subseteq {"password", "tpm"}
  /\ sealed \in 0..MaxPcr /\ pcr \in 0..MaxPcr
  /\ owner \in {"none", "kept", "lost"}
  /\ pc \in Labels
  /\ misread \subseteq {"isLuks", "blkid"}
  /\ binds \in 0..Binds
  /\ faults \in 0..MaxFaults
Flags == {fs, fresh, key, mapper, mounted} \subseteq BOOLEAN

DInv == Discrete /\ Path /\ Volume /\ Misreads

USE DEF Labels, Provisioning, ProdLabels, Goto, Fault, Destroys, medium, kernel,
        Binds

(* Every step leaves the Boolean variables Boolean.                         *)
LEMMA FlagsKept ==
  ASSUME Flags, Next
  PROVE  Flags'
<1>1. CASE Start \/ IsLuks \/ Blkid \/ LuksFormat \/ Enroll \/ Erase
  BY <1>1, Zenon DEF Flags, Start, IsLuks, Blkid, LuksFormat, WritesHeader,
                     Enroll, Erase
<1>2. CASE Wipe \/ Attach \/ Mkfs \/ Bind
  BY <1>2, Zenon DEF Flags, Wipe, Attach, Mkfs, Bind
<1>3. CASE Mount \/ MountDev
  BY <1>3, Zenon DEF Flags, Mount, MountDev
<1>4. CASE WriteData \/ Reboot \/ PowerCut \/ PowerOn \/ Restart \/ PolicyUpdate
  BY <1>4, Zenon DEF Flags, WriteData, Reboot, PowerCut, PowerOff, PowerOn,
                     Restart, PolicyUpdate
<1> QED
  BY <1>1, <1>2, <1>3, <1>4 DEF Next, Script

(* The script keeps the invariant.                                         *)
LEMMA ScriptKeeps ==
  ASSUME DInv, Script
  PROVE  DInv'
<1> USE BoundAssumption DEF DInv, Discrete, Path, Volume, Misreads
<1>1. CASE Start
  <2>1. Discrete'
    BY <1>1 DEF Start
  <2>2. Path'
    BY <1>1 DEF Start
  <2>3. Volume' /\ Misreads'
    BY <1>1 DEF Start
  <2> QED
    BY <2>1, <2>2, <2>3
<1>2. CASE IsLuks
  <2>0. misread' \subseteq {"isLuks", "blkid"}
    BY <1>2, Zenon DEF IsLuks
  <2>1. Discrete'
    BY <1>2, <2>0 DEF IsLuks
  <2>2. Path'
    BY <1>2 DEF IsLuks
  <2>3. Volume' /\ Misreads'
    BY <1>2 DEF IsLuks
  <2> QED
    BY <2>1, <2>2, <2>3
<1>3. CASE Blkid
  <2>0. misread' \subseteq {"isLuks", "blkid"}
    BY <1>3, Zenon DEF Blkid
  <2>1. Discrete'
    BY <1>3, <2>0 DEF Blkid
  <2>2. Path'
    BY <1>3 DEF Blkid
  <2>3. Volume' /\ Misreads'
    BY <1>3 DEF Blkid, MayFormat
  <2> QED
    BY <2>1, <2>2, <2>3
<1>4. CASE LuksFormat
  <2>0. slots' \subseteq {"password", "tpm"}
    BY <1>4, Zenon DEF LuksFormat, WritesHeader
  <2>1. Discrete'
    BY <1>4, <2>0 DEF LuksFormat, WritesHeader
  <2>2. Path'
    BY <1>4 DEF LuksFormat, WritesHeader
  <2>3. Volume' /\ Misreads'
    BY <1>4 DEF LuksFormat, WritesHeader
  <2> QED
    BY <2>1, <2>2, <2>3
<1>5. CASE Enroll
  <2>0. slots' \subseteq {"password", "tpm"}
    BY <1>5, Zenon DEF Enroll
  <2>1. Discrete'
    BY <1>5, <2>0 DEF Enroll
  <2>2. Path'
    BY <1>5 DEF Enroll
  <2>3. Volume' /\ Misreads'
    BY <1>5 DEF Enroll
  <2> QED
    BY <2>1, <2>2, <2>3
<1>6. CASE Erase
  <2>0. slots' \subseteq {"password", "tpm"}
    BY <1>6, Zenon DEF Erase
  <2>1. Discrete'
    BY <1>6, <2>0 DEF Erase
  <2>2. Path'
    BY <1>6 DEF Erase
  <2>3. Volume' /\ Misreads'
    BY <1>6 DEF Erase
  <2> QED
    BY <2>1, <2>2, <2>3
<1>7. CASE Wipe
  <2>0. slots' \subseteq {"password", "tpm"}
    BY <1>7, Zenon DEF Wipe
  <2>1. Discrete'
    BY <1>7, <2>0 DEF Wipe
  <2>2. Path'
    BY <1>7 DEF Wipe
  <2>3. Volume' /\ Misreads'
    BY <1>7 DEF Wipe
  <2> QED
    BY <2>1, <2>2, <2>3
<1>8. CASE Attach
  BY <1>8 DEF Attach, Opens
<1>9. CASE Mkfs
  <2>1. Discrete'
    BY <1>9 DEF Mkfs
  <2>2. Path'
    BY <1>9 DEF Mkfs
  <2>3. Volume' /\ Misreads'
    BY <1>9 DEF Mkfs
  <2> QED
    BY <2>1, <2>2, <2>3
<1>10. CASE Mount
  BY <1>10 DEF Mount
<1>11. CASE MountDev
  <2>1. variant = "dev" /\ ~mapper /\ ~key
    BY <1>11 DEF MountDev
  <2>2. mounted' => sig # "blank"
    BY <1>11 DEF MountDev
  <2>3. Discrete'
    BY <1>11 DEF MountDev
  <2>4. Path' /\ Volume' /\ Misreads'
    BY <1>11, <2>1, <2>2 DEF MountDev
  <2> QED
    BY <2>3, <2>4
<1>12. CASE Bind
  BY <1>12 DEF Bind
<1> QED
  BY <1>1, <1>2, <1>3, <1>4, <1>5, <1>6, <1>7, <1>8, <1>9, <1>10, <1>11, <1>12
  DEF Script

(* So does everything around it.                                           *)
LEMMA SurroundingsKeep ==
  ASSUME DInv,
         WriteData \/ Reboot \/ PowerCut \/ PowerOn \/ Restart \/ PolicyUpdate
  PROVE  DInv'
<1> USE BoundAssumption DEF DInv, Discrete, Path, Volume, Misreads
<1>1. CASE WriteData
  <2>1. Discrete'
    BY <1>1 DEF WriteData
  <2>2. Path'
    BY <1>1 DEF WriteData
  <2>3. Volume' /\ Misreads'
    BY <1>1 DEF WriteData
  <2> QED
    BY <2>1, <2>2, <2>3
<1>2. CASE Reboot \/ PowerCut
  <2>1. PowerOff /\ faults' \in 0..MaxFaults
    BY <1>2 DEF Reboot, PowerCut
  <2>2. Discrete'
    BY <2>1 DEF PowerOff
  <2>3. Path' /\ Volume' /\ Misreads'
    BY <2>1 DEF PowerOff
  <2> QED
    BY <2>2, <2>3
<1>3. CASE PowerOn \/ Restart
  <2>1. pc' = "start" /\ UNCHANGED <<medium, pcr, misread, fresh, key, kernel, faults>>
    BY <1>3 DEF PowerOn, Restart
  <2>2. ~key
    BY <1>3 DEF PowerOn, Restart
  <2>3. Discrete'
    BY <2>1
  <2>4. Path' /\ Volume' /\ Misreads'
    BY <2>1, <2>2
  <2> QED
    BY <2>3, <2>4
<1>4. CASE PolicyUpdate
  BY <1>4 DEF PolicyUpdate
<1> QED
  BY <1>1, <1>2, <1>3, <1>4

(* DInv is an invariant of the script and its surroundings.                 *)
THEOREM DataInvariance == Spec => [](DInv /\ Flags)
<1>1. Init => DInv /\ Flags
  <2> SUFFICES ASSUME Init PROVE DInv /\ Flags
    OBVIOUS
  <2>1. Flags
    BY Zenon DEF Init, Flags
  <2>2. DInv
    BY BoundAssumption DEF Init, DInv, Discrete, Path, Volume, Misreads
  <2> QED
    BY <2>1, <2>2
<1>2. DInv /\ Flags /\ [Next]_vars => (DInv /\ Flags)'
  <2> SUFFICES ASSUME DInv, Flags, [Next]_vars PROVE DInv' /\ Flags'
    OBVIOUS
  <2>1. CASE UNCHANGED vars
    BY <2>1 DEF vars, DInv, Discrete, Path, Volume, Misreads, Flags
  <2>2. CASE Next
    BY <2>2, ScriptKeeps, SurroundingsKeep, FlagsKept DEF Next
  <2> QED
    BY <2>1, <2>2
<1> QED
  BY <1>1, <1>2, PTL DEF Spec

(* The owner's data is destroyed only in a run of the script in which blkid *)
(* failed on the partition, and on a LUKS volume isLuks before it: no other *)
(* failure, power cut, restart or policy update makes luksFormat or mkfs    *)
(* run over data.                                                          *)
THEOREM DataIsDestroyedOnlyBlindly == Spec => DataSurvives
<1> DEFINE Survives ==
      owner = "kept" /\ owner' # "kept" =>
        /\ "blkid" \in misread
        /\ sig = "luks" => "isLuks" \in misread
<1>1. DInv /\ [Next]_vars => [Survives]_vars
  <2> SUFFICES ASSUME DInv, Next, owner = "kept", owner' # "kept"
               PROVE  /\ "blkid" \in misread
                      /\ sig = "luks" => "isLuks" \in misread
    OBVIOUS
  <2>1. LuksFormat \/ Mkfs
    BY DEF Next, Script, Start, IsLuks, Blkid, Enroll, Erase, Wipe, Attach,
           Mount, MountDev, Bind, WriteData, Reboot, PowerCut, PowerOff,
           PowerOn, Restart, PolicyUpdate
  <2>2. pc = "format" /\ sig # "blank"
    BY <2>1 DEF LuksFormat, Mkfs, DInv, Volume
  <2> QED
    BY <2>2 DEF DInv, Misreads
<1> QED
  BY <1>1, DataInvariance, PTL DEF Spec, DataSurvives

(* What is mounted on /data of a production image is sealed to the TPM, and *)
(* the ephemeral key is gone.                                              *)
THEOREM DataIsSealed == Spec => []SealedAtRest
<1>1. DInv => SealedAtRest
  BY DEF DInv, Discrete, Path, Volume, SealedAtRest
<1> QED
  BY <1>1, DataInvariance, PTL

(* The state of the medium, of the script and of what it has mounted keeps  *)
(* its shape through power cuts, restarts and policy updates.               *)
THEOREM DataTypes == Spec => []TypeOK
<1>1. DInv /\ Flags => TypeOK
  BY DEF DInv, Discrete, Flags, TypeOK
<1> QED
  BY <1>1, DataInvariance, PTL
=============================================================================
