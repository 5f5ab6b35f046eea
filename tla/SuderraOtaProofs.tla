-------------------------- MODULE SuderraOtaProofs --------------------------
(***************************************************************************)
(* Theorems about SuderraOta, for every number of versions, every set of   *)
(* manifests, every trusted floor, both boot choosers, and every           *)
(* interleaving of the two processes with failures and power cuts.         *)
(***************************************************************************)
EXTENDS SuderraOta, TLAPS

USE DEF Slots, Procs

(* A process that holds a copy of the state, or a version to install or to *)
(* mark good, holds one of the right kind.                                 *)
HoldsState == InstallLabels \cup {"mg_rauc", "mg_save", "mg_floor", "rb_save",
                                  "err_save"}
HoldsVersion == InstallLabels \cup {"mg_rauc", "mg_save", "mg_floor"}

Alive == mode = "up" => image[booted] \in Versions
Carries ==
  \A p \in Procs :
    /\ pc[p] \in HoldsState => loc[p] \in OtaState
    /\ pc[p] \in HoldsVersion => ver[p] \in Versions

(* An install under way was checked against the trusted floor.             *)
AboveTrusted ==
  \A p \in Procs : pc[p] \in {"in_rauc", "in_write"} => ver[p] >= TrustedFloor

IInv == TypeOK /\ Alive /\ Carries /\ AboveTrusted

----------------------------------------------------------------------------
(* Facts about the operators.                                              *)

(* A boot environment stays one whatever RAUC or a boot chooser writes.    *)
LEMMA EnvOperators ==
  ASSUME NEW e \in EnvType, NEW s \in Slots
  PROVE  /\ RaucMarkGood(e, s) \in EnvType
         /\ RaucMarkBad(e, s) \in EnvType
         /\ RaucActivate(e, s) \subseteq EnvType
         /\ Bootable(e, s) => Attempt(e, s) \in EnvType
<1>1. /\ MaxTries \in Nat /\ MaxTries > 0
      /\ e.primary \in Slots
      /\ e.ok \in [Slots -> 0..1]
      /\ e.try \in [Slots -> 0..1]
      /\ e.left \in [Slots -> 0..MaxTries]
  BY MaxTriesAssumption DEF EnvType
<1>a. ASSUME NEW p \in Slots, NEW x \in 0..1, NEW y \in 0..1
      PROVE  /\ [e EXCEPT !.ok[s] = x, !.try[s] = y] \in EnvType
             /\ [e EXCEPT !.primary = p, !.ok[s] = x, !.try[s] = y] \in EnvType
  <2>1. /\ [e.ok EXCEPT ![s] = x] \in [Slots -> 0..1]
        /\ [e.try EXCEPT ![s] = y] \in [Slots -> 0..1]
    BY <1>1
  <2>2. [e EXCEPT !.ok[s] = x, !.try[s] = y]
          = [e EXCEPT !.ok = [e.ok EXCEPT ![s] = x],
                      !.try = [e.try EXCEPT ![s] = y]]
    BY DEF EnvType
  <2>3. [e EXCEPT !.primary = p, !.ok[s] = x, !.try[s] = y]
          = [e EXCEPT !.primary = p,
                      !.ok = [e.ok EXCEPT ![s] = x],
                      !.try = [e.try EXCEPT ![s] = y]]
    BY DEF EnvType
  <2> QED
    BY <2>1, <2>2, <2>3 DEF EnvType
<1>2. RaucMarkGood(e, s) \in EnvType
  BY <1>1, <1>a DEF RaucMarkGood, EnvType
<1>3. RaucMarkBad(e, s) \in EnvType
  BY <1>1, <1>a DEF RaucMarkBad, EnvType
<1>4. RaucActivate(e, s) \subseteq EnvType
  <2>1. ASSUME NEW x \in RaucActivate(e, s), Backend = "grub"
        PROVE  x \in EnvType
    <3>1. PICK g \in GrubActivate :
            x = [e EXCEPT !.primary = s, !.ok[s] = g[1], !.try[s] = g[2]]
      BY <2>1 DEF RaucActivate
    <3>2. g[1] \in 0..1 /\ g[2] \in 0..1
      BY <3>1, GrubActivateAssumption
    <3>3. [e EXCEPT !.primary = s, !.ok[s] = g[1], !.try[s] = g[2]] \in EnvType
      BY <3>2, <1>a
    <3> QED
      BY <3>1, <3>3
  <2>2. ASSUME NEW x \in RaucActivate(e, s), Backend # "grub"
        PROVE  x \in EnvType
    <3>1. x = [e EXCEPT !.primary = s, !.left[s] = MaxTries]
      BY <2>2 DEF RaucActivate
    <3>2. x = [e EXCEPT !.primary = s, !.left = [e.left EXCEPT ![s] = MaxTries]]
      BY <3>1 DEF EnvType
    <3>3. [e.left EXCEPT ![s] = MaxTries] \in [Slots -> 0..MaxTries]
      BY <1>1
    <3> QED
      BY <3>2, <3>3 DEF EnvType
  <2> QED
    BY <2>1, <2>2
<1>5. Bootable(e, s) => Attempt(e, s) \in EnvType
  BY <1>1 DEF Bootable, Attempt, GrubAttempt, UbootAttempt, UbootBootable,
              EnvType
<1> QED
  BY <1>2, <1>3, <1>4, <1>5

(* load_state on a running device gives a state above the trusted floor.   *)
LEMMA LoadedState ==
  ASSUME TypeOK, Alive, mode = "up", Loadable
  PROVE  /\ Loaded \in OtaState
         /\ Loaded.floor >= TrustedFloor
         /\ Loaded.floor \in {Stored.floor, TrustedFloor}
<1>1. Stored \in OtaState
  <2>1. CASE file.state = NoState
    <3>1. Seed \in OtaState
      BY DefaultFloorAssumption
      DEF TypeOK, Alive, Seed, OtaState, FileType
    <3> QED
      BY <2>1, <3>1 DEF Stored
  <2>2. CASE file.state # NoState
    BY <2>2 DEF TypeOK, FileType, Loadable, Stored
  <2> QED
    BY <2>1, <2>2
<1>2. Stored.floor \in Nat /\ TrustedFloor \in Nat
  BY <1>1, TrustedFloorAssumption, MaxVersionAssumption DEF OtaState, Versions
<1>3. Loaded = [Stored EXCEPT !.floor = Max2(Stored.floor, TrustedFloor)]
  BY <1>1 DEF Loaded, OtaState
<1>4. Max2(Stored.floor, TrustedFloor) \in Versions
  BY <1>1, <1>2, TrustedFloorAssumption, MaxVersionAssumption
  DEF Max2, OtaState, Versions
<1>5. Loaded.floor = Max2(Stored.floor, TrustedFloor)
  BY <1>1, <1>3 DEF OtaState
<1> QED
  BY <1>1, <1>2, <1>3, <1>4, <1>5 DEF Max2, OtaState

----------------------------------------------------------------------------
(* The inductive invariant.                                                *)

(* The part of the invariant that is about the two processes.              *)
ProcsOK ==
  /\ pc \in [Procs -> Labels]
  /\ cmd \in [Procs -> Cmds]
  /\ loc \in [Procs -> OtaState \cup {NoState}]
  /\ ver \in [Procs -> Versions \cup {0}]
  /\ Carries
  /\ AboveTrusted

(* The part that is about the device.                                      *)
DeviceOK ==
  /\ env \in EnvType
  /\ image \in [Slots -> Versions \cup {0}]
  /\ file \in FileType
  /\ disk \in FileType
  /\ mode \in {"off", "up", "halted"}
  /\ booted \in Slots
  /\ healthy \in BOOLEAN
  /\ marked \in SUBSET (Versions \X (Versions \cup {0}))
  /\ ops \in 0..MaxOps
  /\ faults \in 0..MaxFaults
  /\ Alive

(* The part that is about the temporary files.                             *)
TmpOK == tmp \in [Procs -> {"own", "gone", "torn"}]

(* IInv is the conjunction of the three parts.                             *)
LEMMA Parts == IInv <=> ProcsOK /\ DeviceOK /\ TmpOK
BY DEF IInv, ProcsOK, DeviceOK, TmpOK, TypeOK

(* A save leaves the temporary files in order.                             *)
LEMMA TmpSaved ==
  ASSUME TmpOK, NEW p \in Procs,
         SaveState(p) \/ SaveMirror(p) \/ SaveFails(p) \/ RenameFails(p)
  PROVE  TmpOK'
<1>1. ASSUME NEW q \in Procs, NEW how \in {"gone", "torn"}, Takes(p, q, how)
      PROVE  TmpOK'
  BY <1>1 DEF TmpOK, Takes
<1> QED
  BY <1>1 DEF TmpOK, SaveState, SaveMirror, SaveFails, RenameFails

(* So does every step.                                                     *)
LEMMA TmpStep ==
  ASSUME TmpOK, Next
  PROVE  TmpOK'
<1>s. UNCHANGED tmp => TmpOK'
  BY DEF TmpOK
<1>o. PowerOff => TmpOK'
  BY DEF TmpOK, PowerOff
<1>1. ASSUME NEW p \in Procs, ToolStep(p)
      PROVE  TmpOK'
  <2>1. CASE ErrSave(p) \/ RenameFails(p) \/ InstallSave(p) \/ MarkGoodSave(p)
               \/ PersistFloor(p) \/ RollbackSave(p)
    BY <2>1, TmpSaved DEF ErrSave, InstallSave, MarkGoodSave, PersistFloor,
                          RollbackSave
  <2>2. CASE Reboot(p)
    BY <2>2, <1>o DEF Reboot
  <2>3. CASE ErrLoad(p) \/ RebootFails(p) \/ RaucInstallBegin(p)
               \/ RaucInstallEnd(p) \/ RaucInstallFails(p) \/ PendingSlot(p)
               \/ MarkGoodLoad(p) \/ MarkGoodRauc(p) \/ RollbackMark(p)
               \/ RollbackLoad(p)
    BY <2>3, <1>s DEF ErrLoad, RebootFails, RaucInstallBegin, RaucInstallEnd,
           RaucInstallFails, PendingSlot, MarkGoodLoad, MarkGoodRauc,
           RollbackMark, RollbackLoad
  <2> QED
    BY <1>1, <2>1, <2>2, <2>3 DEF ToolStep
<1>2. CASE Operator \/ Gate \/ Chooser \/ PowerCycle \/ Writeback \/ DataReset
  BY <1>2, <1>s DEF Operator, Install, MarkGood, Rollback, Gate,
         HealthGatePasses, HealthGateFails, GateAborts, Chooser, BootUserspace,
         BootPanics, NoBootableSlot, PowerCycle, Writeback, DataReset
<1>3. CASE PlannedReboot \/ PowerLoss
  BY <1>3, <1>o DEF PlannedReboot, PowerLoss
<1> QED
  BY <1>1, <1>2, <1>3 DEF Next

(* What a save stores: a copy of the state that some process is about to    *)
(* save, or a text that does not parse; a floor, or nothing.                *)
LEMMA Stores ==
  ASSUME NEW p \in Procs
  PROVE  /\ pc[p] \in SaveLabels /\ SaveState(p) =>
              \/ file' = [file EXCEPT !.state = Corrupt]
              \/ \E q \in Procs : /\ pc[q] \in SaveLabels
                                  /\ file' = [file EXCEPT !.state = loc[q]]
         /\ pc[p] = "mg_floor" /\ SaveMirror(p) =>
              \/ file' = [file EXCEPT !.mirror = 0]
              \/ \E q \in Procs : /\ pc[q] = "mg_floor"
                                  /\ file' = [file EXCEPT !.mirror = loc[q].floor]
         /\ RenameFails(p) =>
              \/ file' = file
              \/ /\ pc[p] \in SaveLabels
                 /\ file' = [file EXCEPT !.state = loc[p]]
              \/ /\ pc[p] = "mg_floor"
                 /\ file' = [file EXCEPT !.mirror = loc[p].floor]
<1>1. ASSUME pc[p] \in SaveLabels, SaveState(p)
      PROVE  \/ file' = [file EXCEPT !.state = Corrupt]
             \/ \E q \in Procs : /\ pc[q] \in SaveLabels
                                 /\ file' = [file EXCEPT !.state = loc[q]]
  <2>1. CASE file' = [file EXCEPT !.state = loc[p]]
    BY <1>1, <2>1
  <2>2. CASE file' # [file EXCEPT !.state = loc[p]]
    <3>1. PICK q \in Procs, how \in {"gone", "torn"} :
            /\ Takes(p, q, how)
            /\ \E s \in Contents(p, loc[p], loc[q], Corrupt, how) :
                 file' = [file EXCEPT !.state = s]
      BY <1>1, <2>2 DEF SaveState
    <3>2. pc[q] \in SaveLabels
      BY <1>1, <3>1 DEF Takes, SharesTmp, SaveLabels
    <3>3. Contents(p, loc[p], loc[q], Corrupt, how)
            \subseteq {loc[p], loc[q], Corrupt}
      BY DEF Contents
    <3> QED
      BY <2>2, <3>1, <3>2, <3>3
  <2> QED
    BY <2>1, <2>2
<1>2. ASSUME pc[p] = "mg_floor", SaveMirror(p)
      PROVE  \/ file' = [file EXCEPT !.mirror = 0]
             \/ \E q \in Procs : /\ pc[q] = "mg_floor"
                                 /\ file' = [file EXCEPT !.mirror = loc[q].floor]
  <2>1. CASE file' = [file EXCEPT !.mirror = loc[p].floor]
    BY <1>2, <2>1
  <2>2. CASE file' # [file EXCEPT !.mirror = loc[p].floor]
    <3>1. PICK q \in Procs, how \in {"gone", "torn"} :
            /\ Takes(p, q, how)
            /\ \E f \in Contents(p, loc[p].floor, loc[q].floor, 0, how) :
                 file' = [file EXCEPT !.mirror = f]
      BY <1>2, <2>2 DEF SaveMirror
    <3>2. pc[q] = "mg_floor"
      BY <1>2, <3>1 DEF Takes, SharesTmp, SaveLabels
    <3>3. Contents(p, loc[p].floor, loc[q].floor, 0, how)
            \subseteq {loc[p].floor, loc[q].floor, 0}
      BY DEF Contents
    <3> QED
      BY <2>2, <3>1, <3>2, <3>3
  <2> QED
    BY <2>1, <2>2
<1>3. ASSUME RenameFails(p)
      PROVE  \/ file' = file
             \/ /\ pc[p] \in SaveLabels
                /\ file' = [file EXCEPT !.state = loc[p]]
             \/ /\ pc[p] = "mg_floor"
                /\ file' = [file EXCEPT !.mirror = loc[p].floor]
  BY <1>3 DEF RenameFails
<1> QED
  BY <1>1, <1>2, <1>3

(* So the files keep their type.                                           *)
LEMMA StoresType ==
  ASSUME ProcsOK, file \in FileType, NEW p \in Procs,
         \/ pc[p] \in SaveLabels /\ SaveState(p)
         \/ pc[p] = "mg_floor" /\ SaveMirror(p)
         \/ RenameFails(p)
  PROVE  file' \in FileType
<1>1. \A q \in Procs : pc[q] \in SaveLabels \cup {"mg_floor"} =>
        loc[q] \in OtaState /\ loc[q].floor \in Versions
  BY DEF ProcsOK, Carries, HoldsState, InstallLabels, SaveLabels, OtaState
<1>2. /\ [file EXCEPT !.state = Corrupt] \in FileType
      /\ [file EXCEPT !.mirror = 0] \in FileType
  BY DEF FileType
<1>3. ASSUME NEW q \in Procs, pc[q] \in SaveLabels \cup {"mg_floor"}
      PROVE  /\ [file EXCEPT !.state = loc[q]] \in FileType
             /\ [file EXCEPT !.mirror = loc[q].floor] \in FileType
  BY <1>1, <1>3 DEF FileType
<1> QED
  BY Stores, <1>2, <1>3

(* Returning from a command, and bailing out of one, keep the processes     *)
(* in order: the labels they go to hold nothing.                           *)
LEMMA Returns ==
  ASSUME ProcsOK, NEW p \in Procs, Return(p) \/ ReturnFailed(p) \/ Bail(p)
  PROVE  ProcsOK'
BY DEF ProcsOK, Return, ReturnFailed, Bail, Goto, Finished, Carries,
       AboveTrusted, HoldsState, HoldsVersion, InstallLabels, Labels, Cmds

(* One more fault stays within the bound.                                  *)
LEMMA FaultBound ==
  ASSUME faults \in 0..MaxFaults, Fault \/ UNCHANGED faults
  PROVE  faults' \in 0..MaxFaults
BY BoundsAssumption DEF Fault

(* The initial state satisfies the invariant.                              *)
LEMMA InitIInv == Init => IInv
<1> SUFFICES ASSUME Init PROVE IInv
  OBVIOUS
<1>1. FactoryEnv \in EnvType
  BY MaxTriesAssumption DEF FactoryEnv, EnvType
<1>2. TypeOK
  <2>1. /\ env \in EnvType
        /\ mode \in {"off", "up", "halted"} /\ booted \in Slots
        /\ healthy \in BOOLEAN
    BY <1>1 DEF Init
  <2>a. image \in [Slots -> Versions \cup {0}]
    BY FactoryAssumption DEF Init
  <2>b. ops \in 0..MaxOps /\ faults \in 0..MaxFaults
    BY BoundsAssumption DEF Init
  <2>2. file \in FileType /\ disk \in FileType
    BY DEF Init, FileType
  <2>3. /\ pc \in [Procs -> Labels] /\ cmd \in [Procs -> Cmds]
        /\ loc \in [Procs -> OtaState \cup {NoState}]
        /\ ver \in [Procs -> Versions \cup {0}]
    BY DEF Init, Labels, Cmds
  <2>4. marked \in SUBSET (Versions \X (Versions \cup {0}))
    BY DEF Init
  <2>5. tmp \in [Procs -> {"own", "gone", "torn"}]
    BY DEF Init
  <2> QED
    BY <2>1, <2>a, <2>b, <2>2, <2>3, <2>4, <2>5 DEF TypeOK
<1>3. Alive /\ Carries /\ AboveTrusted
  BY DEF Init, Alive, Carries, AboveTrusted, HoldsState, HoldsVersion,
         InstallLabels
<1> QED
  BY <1>2, <1>3 DEF IInv


(* Every step of a process in the tool preserves the invariant.            *)
LEMMA ToolStepIInv ==
  ASSUME IInv, NEW p \in Procs, ToolStep(p)
  PROVE  IInv'
<1>1. ProcsOK /\ DeviceOK /\ TmpOK
  BY Parts
<1>f. MaxVersion \in Nat /\ TrustedFloor \in Nat
  BY MaxVersionAssumption, TrustedFloorAssumption DEF Versions
<1>g. faults' \in 0..MaxFaults
  BY <1>1, FaultBound
  DEF DeviceOK, ToolStep, ErrLoad, ErrSave, RenameFails, SaveFails, Reboot,
      RebootFails, RaucInstallBegin, RaucInstallEnd, RaucInstallFails, PendingSlot, InstallSave, MarkGoodLoad,
      MarkGoodRauc, MarkGoodSave, PersistFloor, RollbackMark, RollbackLoad,
      RollbackSave
<1>s. ASSUME UNCHANGED machine, UNCHANGED <<file, disk, ops>>
      PROVE  DeviceOK'
  BY <1>1, <1>g, <1>s DEF DeviceOK, machine, Alive
<1>t. ASSUME UNCHANGED machine, UNCHANGED <<disk, ops>>,
             \/ pc[p] \in SaveLabels /\ SaveState(p)
             \/ pc[p] = "mg_floor" /\ SaveMirror(p)
             \/ RenameFails(p) \/ SaveFails(p)
      PROVE  DeviceOK'
  <2>1. file' \in FileType
    BY <1>1, <1>t, StoresType DEF DeviceOK, SaveFails
  <2> QED
    BY <1>1, <1>g, <1>t, <2>1 DEF DeviceOK, machine, Alive
<1>q. ProcsOK' /\ DeviceOK' => IInv'
  BY <1>1, TmpStep DEF IInv, ProcsOK, DeviceOK, TmpOK, TypeOK, Next
<1>l. (mode = "up" /\ Loadable) => /\ Loaded \in OtaState
                                   /\ Loaded.floor >= TrustedFloor
  BY <1>1, LoadedState, Parts DEF IInv
<1>2. CASE ErrLoad(p)
  <2>1. DeviceOK'
    BY <1>2, <1>s DEF ErrLoad
  <2>2. CASE ReturnFailed(p)
    BY <2>1, <2>2, <1>1, <1>q, Returns
  <2>3. CASE ~ReturnFailed(p)
    <3>1. /\ loc' = [loc EXCEPT ![p] = Loaded] /\ Loaded \in OtaState
          /\ pc' = [pc EXCEPT ![p] = "err_save"]
          /\ cmd' = cmd /\ ver' = ver
      BY <2>3, <1>2, <1>l DEF ErrLoad, At, Goto
    <3>2. ProcsOK'
      BY <3>1, <1>1 DEF ProcsOK, Carries, AboveTrusted, HoldsState,
                        HoldsVersion, InstallLabels, Labels
    <3> QED
      BY <2>1, <3>2, <1>q
  <2> QED
    BY <2>2, <2>3
<1>3. CASE ErrSave(p) \/ RenameFails(p)
  <2>2. DeviceOK'
    BY <1>3, <1>t DEF ErrSave, RenameFails, At, SaveLabels
  <2> QED
    BY <1>1, <1>3, <1>q, <2>2, Returns DEF ErrSave, RenameFails
<1>4. CASE Reboot(p)
  <2>1. ProcsOK'
    BY <1>4 DEF Reboot, PowerOff, ProcsOK, Carries, AboveTrusted, HoldsState,
                HoldsVersion, InstallLabels, Labels, Cmds
  <2>2. DeviceOK'
    BY <1>1, <1>4, <1>g DEF Reboot, PowerOff, DeviceOK, Alive
  <2> QED
    BY <2>1, <2>2, <1>q
<1>5. CASE RebootFails(p) \/ RaucInstallFails(p)
  BY <1>1, <1>5, <1>q, <1>s, Returns DEF RebootFails, RaucInstallFails
<1>6. CASE RaucInstallBegin(p)
  <2>1. ProcsOK'
    BY <1>1, <1>6 DEF RaucInstallBegin, At, Goto, ProcsOK, Carries,
           AboveTrusted, HoldsState, HoldsVersion, InstallLabels, Labels
  <2>2. env' \in EnvType
    BY <1>1, <1>6, EnvOperators DEF RaucInstallBegin, DeviceOK, Target, Other
  <2>3. DeviceOK'
    BY <1>1, <1>6, <1>g, <2>2 DEF RaucInstallBegin, DeviceOK, Target, Other,
                                  Alive
  <2> QED
    BY <2>1, <2>3, <1>q
<1>7. CASE RaucInstallEnd(p)
  <2>1. ProcsOK'
    BY <1>1, <1>7 DEF RaucInstallEnd, At, Goto, ProcsOK, Carries,
           AboveTrusted, HoldsState, HoldsVersion, InstallLabels, Labels
  <2>2. env' \in EnvType
    BY <1>1, <1>7, EnvOperators DEF RaucInstallEnd, DeviceOK, Target, Other
  <2>3. ver[p] \in Versions
    BY <1>1, <1>7 DEF RaucInstallEnd, At, ProcsOK, Carries, HoldsVersion,
                      InstallLabels
  <2>4. DeviceOK'
    BY <1>1, <1>7, <1>g, <2>2, <2>3 DEF RaucInstallEnd, DeviceOK, Target,
                                        Other, Alive
  <2> QED
    BY <2>1, <2>4, <1>q
<1>8. CASE PendingSlot(p)
  <2>1. DeviceOK'
    BY <1>8, <1>s DEF PendingSlot
  <2>2. CASE Bail(p)
    BY <1>1, <1>q, <2>1, <2>2, Returns
  <2>3. CASE ~Bail(p)
    <3>1. loc[p] \in OtaState /\ ver[p] \in Versions /\ NamedSlot \in Slots
      BY <1>1, <1>8, StatusAssumption
      DEF PendingSlot, At, ProcsOK, DeviceOK, EnvType, Carries, HoldsState,
          HoldsVersion, InstallLabels, NamedSlot
    <3>2. /\ loc' = [loc EXCEPT ![p] = [loc[p] EXCEPT !.pending = ver[p],
                                                      !.slot = NamedSlot]]
          /\ pc' = [pc EXCEPT ![p] = "in_save"]
          /\ cmd' = cmd /\ ver' = ver
      BY <1>1, <1>8, <2>3, <3>1 DEF PendingSlot, Goto, ProcsOK, OtaState
    <3>3. [loc[p] EXCEPT !.pending = ver[p], !.slot = NamedSlot] \in OtaState
      BY <3>1 DEF OtaState
    <3>4. ProcsOK'
      BY <1>1, <3>1, <3>2, <3>3 DEF ProcsOK, Carries, AboveTrusted, HoldsState,
                                    HoldsVersion, InstallLabels, Labels
    <3> QED
      BY <2>1, <3>4, <1>q
  <2> QED
    BY <2>2, <2>3
<1>9. CASE InstallSave(p) \/ RollbackSave(p)
  <2>2. DeviceOK'
    BY <1>9, <1>t DEF InstallSave, RollbackSave, At, SaveLabels
  <2>3. CASE Bail(p) \/ Return(p)
    BY <1>1, <1>q, <2>2, <2>3, Returns
  <2>4. CASE ~(Bail(p) \/ Return(p))
    <3>1. pc' = [pc EXCEPT ![p] = "reboot"] /\ UNCHANGED <<cmd, loc, ver>>
      BY <1>9, <2>4 DEF InstallSave, RollbackSave, Goto
    <3>2. ProcsOK'
      BY <1>1, <3>1 DEF ProcsOK, Carries, AboveTrusted, HoldsState,
                        HoldsVersion, InstallLabels, Labels
    <3> QED
      BY <2>2, <3>2, <1>q
  <2> QED
    BY <2>3, <2>4
<1>10. CASE MarkGoodLoad(p)
  <2>1. DeviceOK'
    BY <1>10, <1>s DEF MarkGoodLoad
  <2>2. CASE Bail(p)
    BY <1>1, <1>q, <2>1, <2>2, Returns
  <2>3. CASE ~Bail(p)
    <3>1. Loaded \in OtaState /\ MayMarkGood(p, Loaded)
      BY <1>10, <2>3, <1>l DEF MarkGoodLoad, At
    <3>2. VersionToMark(p, Loaded) \in Versions
      BY <1>1, <3>1 DEF MayMarkGood, VersionToMark, ProcsOK, OtaState
    <3>3. /\ loc' = [loc EXCEPT ![p] = Loaded]
          /\ ver' = [ver EXCEPT ![p] = VersionToMark(p, Loaded)]
          /\ pc' = [pc EXCEPT ![p] = "mg_rauc"]
          /\ cmd' = cmd
      BY <1>10, <2>3 DEF MarkGoodLoad, Goto
    <3>4. ProcsOK'
      BY <1>1, <3>1, <3>2, <3>3 DEF ProcsOK, Carries, AboveTrusted,
             HoldsState, HoldsVersion, InstallLabels, Labels
    <3> QED
      BY <2>1, <3>4, <1>q
  <2> QED
    BY <2>2, <2>3
<1>11. CASE MarkGoodRauc(p)
  <2>1. /\ loc[p] \in OtaState /\ ver[p] \in Versions
        /\ image[booted] \in Versions /\ booted \in Slots
    BY <1>1, <1>11 DEF MarkGoodRauc, At, ProcsOK, DeviceOK, Alive, Carries,
                       HoldsState, HoldsVersion
  <2>2. CASE Bail(p) /\ UNCHANGED <<env, marked>>
    <3>1. DeviceOK'
      BY <1>1, <1>11, <1>g, <2>2 DEF MarkGoodRauc, DeviceOK, Alive
    <3> QED
      BY <1>1, <1>q, <2>2, <3>1, Returns
  <2>3. CASE ~(Bail(p) /\ UNCHANGED <<env, marked>>)
    <3> DEFINE new == [current |-> ver[p], floor |-> Max2(ver[p], loc[p].floor),
                       pending |-> 0, slot |-> "none"]
    <3>1. /\ env' = RaucMarkGood(env, booted)
          /\ marked' = marked \cup {<<ver[p], image[booted]>>}
          /\ loc' = [loc EXCEPT ![p] = new]
          /\ pc' = [pc EXCEPT ![p] = "mg_save"]
          /\ cmd' = cmd /\ ver' = ver
      BY <1>1, <1>11, <2>3 DEF MarkGoodRauc, Goto, ProcsOK
    <3>2. new \in OtaState
      BY <2>1, <1>f DEF OtaState, Max2, Versions
    <3> HIDE DEF new
    <3>3. ProcsOK'
      BY <1>1, <2>1, <3>1, <3>2 DEF ProcsOK, Carries, AboveTrusted, HoldsState,
                                    HoldsVersion, InstallLabels, Labels
    <3>4. env' \in EnvType
      BY <1>1, <2>1, <3>1, EnvOperators DEF DeviceOK
    <3>5. marked' \in SUBSET (Versions \X (Versions \cup {0}))
      BY <1>1, <2>1, <3>1 DEF DeviceOK
    <3>6. DeviceOK'
      BY <1>1, <1>11, <1>g, <3>4, <3>5 DEF MarkGoodRauc, DeviceOK, Alive
    <3> QED
      BY <3>3, <3>6, <1>q
  <2> QED
    BY <2>2, <2>3
<1>12. CASE MarkGoodSave(p)
  <2>2. DeviceOK'
    BY <1>12, <1>t DEF MarkGoodSave, At, SaveLabels
  <2>3. CASE Bail(p)
    BY <1>1, <1>q, <2>2, <2>3, Returns
  <2>4. CASE ~Bail(p)
    <3>1. pc' = [pc EXCEPT ![p] = "mg_floor"] /\ UNCHANGED <<cmd, loc, ver>>
      BY <1>12, <2>4 DEF MarkGoodSave, Goto
    <3>2. ProcsOK'
      BY <1>1, <1>12, <3>1 DEF MarkGoodSave, At, ProcsOK, Carries,
             AboveTrusted, HoldsState, HoldsVersion, InstallLabels, Labels
    <3> QED
      BY <2>2, <3>2, <1>q
  <2> QED
    BY <2>3, <2>4
<1>13. CASE PersistFloor(p)
  <2>3. DeviceOK'
    BY <1>13, <1>t DEF PersistFloor, At
  <2> QED
    BY <1>1, <1>13, <1>q, <2>3, Returns DEF PersistFloor
<1>14. CASE RollbackMark(p)
  <2>1. env' \in EnvType
    BY <1>1, <1>14, EnvOperators DEF RollbackMark, DeviceOK
  <2>2. DeviceOK'
    BY <1>1, <1>14, <1>g, <2>1 DEF RollbackMark, DeviceOK, Alive
  <2>3. CASE Bail(p)
    BY <1>1, <1>q, <2>2, <2>3, Returns
  <2>4. CASE ~Bail(p)
    <3>1. pc' = [pc EXCEPT ![p] = "rb_load"] /\ UNCHANGED <<cmd, loc, ver>>
      BY <1>14, <2>4 DEF RollbackMark, Goto
    <3>2. ProcsOK'
      BY <1>1, <3>1 DEF ProcsOK, Carries, AboveTrusted, HoldsState,
                        HoldsVersion, InstallLabels, Labels
    <3> QED
      BY <2>2, <3>2, <1>q
  <2> QED
    BY <2>3, <2>4
<1>15. CASE RollbackLoad(p)
  <2>1. DeviceOK'
    BY <1>15, <1>s DEF RollbackLoad
  <2>2. CASE Bail(p)
    BY <1>1, <1>q, <2>1, <2>2, Returns
  <2>3. CASE ~Bail(p)
    <3> DEFINE new == [Loaded EXCEPT !.pending = 0, !.slot = "none"]
    <3>1. /\ loc' = [loc EXCEPT ![p] = new] /\ Loaded \in OtaState
          /\ pc' = [pc EXCEPT ![p] = "rb_save"]
          /\ cmd' = cmd /\ ver' = ver
      BY <1>15, <2>3, <1>l DEF RollbackLoad, At, Goto
    <3>2. new \in OtaState
      BY <3>1 DEF OtaState
    <3> HIDE DEF new
    <3>3. ProcsOK'
      BY <1>1, <3>1, <3>2 DEF ProcsOK, Carries, AboveTrusted, HoldsState,
                              HoldsVersion, InstallLabels, Labels
    <3> QED
      BY <2>1, <3>3, <1>q
  <2> QED
    BY <2>2, <2>3
<1> QED
  BY <1>2, <1>3, <1>4, <1>5, <1>6, <1>7, <1>8, <1>9, <1>10, <1>11, <1>12,
     <1>13, <1>14, <1>15
  DEF ToolStep

(* The operator's commands and the gate's start preserve the invariant.     *)
LEMMA StartIInv ==
  ASSUME IInv, Operator \/ Gate
  PROVE  IInv'
<1>1. ProcsOK /\ DeviceOK /\ TmpOK
  BY Parts
<1>q. ProcsOK' /\ DeviceOK' => IInv'
  BY <1>1, TmpStep DEF IInv, ProcsOK, DeviceOK, TmpOK, TypeOK, Next
<1>o. ASSUME NEW c, Issue(c), UNCHANGED <<machine, file, disk, faults>>
      PROVE  DeviceOK' /\ cmd' \in [Procs -> Cmds] /\ mode = "up"
  <2>1. ops' \in 0..MaxOps
    BY <1>1, <1>o, BoundsAssumption DEF Issue, DeviceOK
  <2>2. cmd' \in [Procs -> Cmds]
    BY <1>1, <1>o, OperatorAssumption DEF Issue, ProcsOK, Cmds
  <2> QED
    BY <1>1, <1>o, <2>1, <2>2 DEF Issue, At, DeviceOK, machine, Alive
<1>2. ASSUME NEW m \in Manifests, Install(m)
      PROVE  IInv'
  <2>1. DeviceOK' /\ cmd' \in [Procs -> Cmds] /\ mode = "up"
    BY <1>2, <1>o DEF Install
  <2>2. m.version \in Versions /\ m \in Manifest
    BY ManifestAssumption DEF Manifest
  <2>3. CASE Loadable /\ PolicyAccepts(m, Loaded)
    <3>1. /\ loc' = [loc EXCEPT !["operator"] = Loaded]
          /\ ver' = [ver EXCEPT !["operator"] = m.version]
          /\ pc' = [pc EXCEPT !["operator"] = "in_rauc"]
      BY <1>2, <2>3 DEF Install, Goto
    <3>2. Loaded \in OtaState /\ Loaded.floor >= TrustedFloor
      BY <1>1, <2>1, <2>3, LoadedState, Parts DEF IInv
    <3>3. m.version >= TrustedFloor
      <4>1. m.version >= Loaded.floor
        BY <2>3 DEF PolicyAccepts
      <4>2. m.version \in Nat /\ Loaded.floor \in Nat /\ TrustedFloor \in Nat
        BY <2>2, <3>2, MaxVersionAssumption, TrustedFloorAssumption
        DEF OtaState, Versions
      <4> QED
        BY <3>2, <4>1, <4>2
    <3>4. ProcsOK'
      BY <1>1, <2>1, <2>2, <3>1, <3>2, <3>3
      DEF ProcsOK, Carries, AboveTrusted, HoldsState, HoldsVersion,
          InstallLabels, Labels
    <3> QED
      BY <2>1, <3>4, <1>q
  <2>4. CASE ~(Loadable /\ PolicyAccepts(m, Loaded))
    <3>1. /\ pc' = [pc EXCEPT !["operator"] = "err_load"]
          /\ loc' = loc /\ ver' = ver
      BY <1>2, <2>4 DEF Install, Goto
    <3>2. ProcsOK'
      BY <1>1, <2>1, <3>1 DEF ProcsOK, Carries, AboveTrusted, HoldsState,
                              HoldsVersion, InstallLabels, Labels
    <3> QED
      BY <2>1, <3>2, <1>q
  <2> QED
    BY <2>3, <2>4
<1>3. ASSUME NEW v \in Versions \cup {0}, MarkGood(v)
      PROVE  IInv'
  <2>1. DeviceOK' /\ cmd' \in [Procs -> Cmds]
    BY <1>3, <1>o DEF MarkGood
  <2>2. ProcsOK'
    BY <1>1, <1>3, <2>1 DEF MarkGood, Goto, ProcsOK, Carries, AboveTrusted,
           HoldsState, HoldsVersion, InstallLabels, Labels
  <2> QED
    BY <2>1, <2>2, <1>q
<1>4. CASE Rollback
  <2>1. DeviceOK' /\ cmd' \in [Procs -> Cmds]
    BY <1>4, <1>o DEF Rollback
  <2>2. ProcsOK'
    BY <1>1, <1>4, <2>1 DEF Rollback, Goto, ProcsOK, Carries, AboveTrusted,
           HoldsState, HoldsVersion, InstallLabels, Labels
  <2> QED
    BY <2>1, <2>2, <1>q
<1>5. CASE Gate
  <2>1. faults' \in 0..MaxFaults
    BY <1>1, <1>5, FaultBound DEF Gate, HealthGatePasses, HealthGateFails, GateAborts,
                                  DeviceOK
  <2>2. DeviceOK'
    BY <1>1, <1>5, <2>1 DEF Gate, HealthGatePasses, HealthGateFails, GateAborts, DeviceOK,
                            machine, Alive
  <2>3. ProcsOK'
    BY <1>1, <1>5 DEF Gate, HealthGatePasses, HealthGateFails, GateAborts, Goto, ProcsOK,
           Carries, AboveTrusted, HoldsState, HoldsVersion, InstallLabels,
           Labels, Cmds
  <2> QED
    BY <2>2, <2>3, <1>q
<1> QED
  BY <1>2, <1>3, <1>4, <1>5 DEF Operator

(* The boot choosers, reboots, power cuts and resets preserve it.           *)
LEMMA MachineIInv ==
  ASSUME IInv,
         Chooser \/ PowerCycle \/ PlannedReboot \/ Writeback \/ PowerLoss
           \/ DataReset
  PROVE  IInv'
<1>1. ProcsOK /\ DeviceOK /\ TmpOK
  BY Parts
<1>q. ProcsOK' /\ DeviceOK' => IInv'
  BY <1>1, TmpStep DEF IInv, ProcsOK, DeviceOK, TmpOK, TypeOK, Next
<1>u. UNCHANGED procVars => ProcsOK'
  BY <1>1 DEF procVars, ProcsOK, Carries, AboveTrusted
<1>p. PowerOff => ProcsOK' /\ mode' = "off" /\ healthy' = FALSE
  BY DEF PowerOff, ProcsOK, Carries, AboveTrusted, HoldsState, HoldsVersion,
         InstallLabels, Labels, Cmds
<1>2. ASSUME NEW s \in Slots, BootUserspace(s)
      PROVE  IInv'
  <2>1. env' \in EnvType
    BY <1>1, <1>2, EnvOperators DEF BootUserspace, Picks, DeviceOK
  <2>2. ProcsOK'
    BY <1>1, <1>2 DEF BootUserspace, ProcsOK, Carries, AboveTrusted,
           HoldsState, HoldsVersion, InstallLabels, Labels
  <2>3. DeviceOK'
    BY <1>1, <1>2, <2>1 DEF BootUserspace, Boots, DeviceOK, Alive
  <2> QED
    BY <2>2, <2>3, <1>q
<1>3. ASSUME NEW s \in Slots, BootPanics(s)
      PROVE  IInv'
  <2>1. env' \in EnvType
    BY <1>1, <1>3, EnvOperators DEF BootPanics, Picks, DeviceOK
  <2>2. DeviceOK'
    BY <1>1, <1>3, <2>1 DEF BootPanics, DeviceOK, Alive
  <2> QED
    BY <1>3, <1>u, <2>2, <1>q DEF BootPanics
<1>4. CASE NoBootableSlot \/ PowerCycle
  <2>1. DeviceOK'
    BY <1>1, <1>4 DEF NoBootableSlot, PowerCycle, DeviceOK, Alive
  <2> QED
    BY <1>4, <1>u, <2>1, <1>q DEF NoBootableSlot, PowerCycle
<1>5. CASE PlannedReboot
  <2>1. DeviceOK'
    BY <1>1, <1>5, <1>p DEF PlannedReboot, DeviceOK, Alive
  <2> QED
    BY <1>5, <1>p, <2>1, <1>q DEF PlannedReboot
<1>6. CASE Writeback
  <2>1. DeviceOK'
    BY <1>1, <1>6 DEF Writeback, machine, DeviceOK, Alive
  <2> QED
    BY <1>6, <1>u, <2>1, <1>q DEF Writeback
<1>7. CASE PowerLoss
  <2>1. faults' \in 0..MaxFaults
    BY <1>1, <1>7, FaultBound DEF PowerLoss, DeviceOK
  <2>2. file' \in FileType
    BY <1>1, <1>7 DEF PowerLoss, DeviceOK, FileType
  <2>3. DeviceOK'
    BY <1>1, <1>7, <1>p, <2>1, <2>2 DEF PowerLoss, DeviceOK, Alive
  <2> QED
    BY <1>7, <1>p, <2>3, <1>q DEF PowerLoss
<1>8. CASE DataReset
  <2>1. faults' \in 0..MaxFaults
    BY <1>1, <1>8, FaultBound DEF DataReset, DeviceOK
  <2>2. file' \in FileType
    BY <1>8 DEF DataReset, FileType
  <2>3. DeviceOK'
    BY <1>1, <1>8, <2>1, <2>2 DEF DataReset, machine, DeviceOK, Alive
  <2> QED
    BY <1>8, <1>u, <2>3, <1>q DEF DataReset
<1> QED
  BY <1>2, <1>3, <1>4, <1>5, <1>6, <1>7, <1>8 DEF Chooser

(* IInv is an invariant of the device.                                     *)
THEOREM Invariance == Spec => []IInv
<1>1. IInv /\ [Next]_vars => IInv'
  <2> SUFFICES ASSUME IInv, [Next]_vars PROVE IInv'
    OBVIOUS
  <2>1. CASE UNCHANGED vars
    BY <2>1 DEF vars, IInv, TypeOK, Alive, Carries, AboveTrusted
  <2> QED
    BY <2>1, ToolStepIInv, StartIInv, MachineIInv DEF Next
<1> QED
  BY <1>1, InitIInv, PTL DEF Spec

(* Every variable keeps its type: no step of the tool stores a state, a     *)
(* version or a boot environment that the next command could not use.       *)
THEOREM TypeCorrectness == Spec => []TypeOK
<1>1. IInv => TypeOK
  BY DEF IInv
<1> QED
  BY <1>1, Invariance, PTL

----------------------------------------------------------------------------
(* The trusted floor.                                                      *)

(* No slot is ever written with a version below the trusted floor.          *)
THEOREM TrustedFloorIsEnforced == Spec => WritesAboveTrustedFloor
<1> DEFINE Holds ==
      \A s \in Slots : image'[s] \notin {0, image[s]} => image'[s] >= TrustedFloor
<1>1. IInv /\ [Next]_vars => [Holds]_vars
  <2> SUFFICES ASSUME IInv, Next PROVE Holds
    OBVIOUS
  <2>1. ASSUME NEW p \in Procs, RaucInstallBegin(p)
        PROVE  Holds
    BY <2>1 DEF RaucInstallBegin, IInv, TypeOK, Target, Other
  <2>2. ASSUME NEW p \in Procs, RaucInstallEnd(p)
        PROVE  Holds
    <3>1. ver[p] >= TrustedFloor
      BY <2>2 DEF RaucInstallEnd, At, IInv, AboveTrusted
    <3> QED
      BY <2>2, <3>1 DEF RaucInstallEnd, IInv, TypeOK, Target, Other
  <2>3. ASSUME image' = image
        PROVE  Holds
    BY <2>3
  <2>4. ASSUME NEW p \in Procs, ToolStep(p)
        PROVE  Holds
    <3>1. \/ image' = image \/ RaucInstallBegin(p) \/ RaucInstallEnd(p)
      BY <2>4 DEF ToolStep, ErrLoad, ErrSave, RenameFails, Reboot, RebootFails,
             RaucInstallFails, PendingSlot, InstallSave, MarkGoodLoad,
             MarkGoodRauc, MarkGoodSave, PersistFloor, RollbackMark,
             RollbackLoad, RollbackSave, machine
    <3> QED
      BY <3>1, <2>1, <2>2, <2>3
  <2>5. CASE Operator \/ Gate \/ Chooser \/ PowerCycle \/ PlannedReboot
               \/ Writeback \/ PowerLoss \/ DataReset
    <3>1. image' = image
      BY <2>5 DEF Operator, Install, MarkGood, Rollback, Gate,
             HealthGatePasses, HealthGateFails, GateAborts, Chooser, BootUserspace,
             BootPanics, NoBootableSlot, PowerCycle, PlannedReboot, Writeback,
             PowerLoss, DataReset, machine
    <3> QED
      BY <3>1, <2>3
  <2> QED
    BY <2>4, <2>5 DEF Next
<1> QED
  BY <1>1, Invariance, PTL DEF Spec, WritesAboveTrustedFloor

----------------------------------------------------------------------------
(* The rollback floor only advances through mark-good.                      *)

(* The copies of the state that commands carry hold proven floors too.      *)
LocProven ==
  \A p \in Procs : pc[p] \in HoldsState => Proven(loc[p].floor)

(* The versions marked good only grow in number.                           *)
LEMMA MarkedGrows ==
  ASSUME Next
  PROVE  marked \subseteq marked' /\ MarkedVersions \subseteq MarkedVersions'
<1>1. marked \subseteq marked'
  <2>1. ASSUME NEW p \in Procs, ToolStep(p)
        PROVE  marked \subseteq marked'
    BY <2>1 DEF ToolStep, ErrLoad, ErrSave, RenameFails, Reboot, RebootFails,
           RaucInstallBegin, RaucInstallEnd, RaucInstallFails, PendingSlot,
           InstallSave, MarkGoodLoad, MarkGoodRauc, MarkGoodSave,
           PersistFloor, RollbackMark, RollbackLoad, RollbackSave, machine
  <2>2. CASE Operator \/ Gate \/ Chooser \/ PowerCycle \/ PlannedReboot
               \/ Writeback \/ PowerLoss \/ DataReset
    BY <2>2 DEF Operator, Install, MarkGood, Rollback, Gate,
           HealthGatePasses, HealthGateFails, GateAborts, Chooser, BootUserspace,
           BootPanics, NoBootableSlot, PowerCycle, PlannedReboot, Writeback,
           PowerLoss, DataReset, machine
  <2> QED
    BY <2>1, <2>2 DEF Next
<1> QED
  BY <1>1 DEF MarkedVersions

(* load_state yields a proven floor when the files hold proven floors.      *)
LEMMA LoadedProven ==
  ASSUME IInv, FloorProven, mode = "up", Loadable
  PROVE  Proven(Loaded.floor)
<1>1. Loaded.floor \in {Stored.floor, TrustedFloor}
  BY LoadedState DEF IInv
<1>2. Proven(Stored.floor)
  <2>1. CASE file.state = NoState
    BY <2>1 DEF Stored, Seed, FloorProven, Proven
  <2>2. CASE file.state # NoState
    BY <2>2 DEF Stored, FloorProven, Loadable, IInv, TypeOK, FileType
  <2> QED
    BY <2>1, <2>2
<1> QED
  BY <1>1, <1>2 DEF Proven

(* Where the files' contents come from: a step stores what was stored       *)
(* before, nothing, or the copy of the state a command carries.             *)
LEMMA FileSources ==
  ASSUME IInv, Next, NEW f \in {file', disk'}
  PROVE  /\ \/ f.mirror \in {0, file.mirror, disk.mirror}
            \/ \E p \in Procs : pc[p] \in HoldsState /\ f.mirror = loc[p].floor
         /\ \/ f.state \in {NoState, Corrupt, file.state, disk.state}
            \/ \E p \in Procs : pc[p] \in HoldsState /\ f.state = loc[p]
<1> DEFINE Goal ==
      /\ \/ f.mirror \in {0, file.mirror, disk.mirror}
         \/ \E p \in Procs : pc[p] \in HoldsState /\ f.mirror = loc[p].floor
      /\ \/ f.state \in {NoState, Corrupt, file.state, disk.state}
         \/ \E p \in Procs : pc[p] \in HoldsState /\ f.state = loc[p]
<1>1. ASSUME file' = file, disk' \in {file, disk}
      PROVE  Goal
  BY <1>1
<1>2. ASSUME NEW p \in Procs, disk' = disk,
             \/ pc[p] \in SaveLabels /\ SaveState(p)
             \/ pc[p] = "mg_floor" /\ SaveMirror(p)
             \/ RenameFails(p) \/ SaveFails(p)
      PROVE  Goal
  <2>1. file \in FileType
    BY DEF IInv, TypeOK
  <2>2. SaveLabels \cup {"mg_floor"} \subseteq HoldsState
    BY DEF SaveLabels, HoldsState, InstallLabels
  <2>3. \/ file' = file
        \/ file' = [file EXCEPT !.state = Corrupt]
        \/ file' = [file EXCEPT !.mirror = 0]
        \/ \E q \in Procs : /\ pc[q] \in HoldsState
                            /\ \/ file' = [file EXCEPT !.state = loc[q]]
                               \/ file' = [file EXCEPT !.mirror = loc[q].floor]
    BY <1>2, <2>2, Stores DEF SaveFails
  <2> QED
    BY <1>1, <1>2, <2>1, <2>3 DEF FileType
<1>4. ASSUME NEW p \in Procs, ToolStep(p)
      PROVE  Goal
  <2>1. CASE InstallSave(p) \/ MarkGoodSave(p) \/ RollbackSave(p) \/ ErrSave(p)
               \/ PersistFloor(p) \/ RenameFails(p)
    <3>1. /\ disk' = disk
          /\ \/ pc[p] \in SaveLabels /\ SaveState(p)
             \/ pc[p] = "mg_floor" /\ SaveMirror(p)
             \/ RenameFails(p) \/ SaveFails(p)
      BY <2>1 DEF InstallSave, MarkGoodSave, RollbackSave, ErrSave,
                  PersistFloor, RenameFails, At, SaveLabels
    <3> QED
      BY <3>1, <1>2
  <2>2. CASE ~(InstallSave(p) \/ MarkGoodSave(p) \/ RollbackSave(p)
                \/ ErrSave(p) \/ PersistFloor(p) \/ RenameFails(p))
    <3>1. file' = file /\ disk' \in {file, disk}
      BY <2>2, <1>4 DEF ToolStep, ErrLoad, Reboot, RebootFails,
             RaucInstallBegin, RaucInstallEnd, RaucInstallFails, PendingSlot,
             MarkGoodLoad, MarkGoodRauc, RollbackMark, RollbackLoad, machine
    <3> QED
      BY <3>1, <1>1
  <2> QED
    BY <2>1, <2>2
<1>5. CASE Operator \/ Gate \/ Chooser \/ PowerCycle \/ PlannedReboot
             \/ Writeback
  <2>1. file' = file /\ disk' \in {file, disk}
    BY <1>5 DEF Operator, Install, MarkGood, Rollback, Gate,
           HealthGatePasses, HealthGateFails, GateAborts, Chooser, BootUserspace,
           BootPanics, NoBootableSlot, PowerCycle, PlannedReboot, Writeback,
           machine
  <2> QED
    BY <2>1, <1>1
<1>6. CASE PowerLoss
  <2>1. /\ f.state \in {disk.state, file.state, Corrupt}
        /\ f.mirror \in {disk.mirror, file.mirror}
    BY <1>6 DEF PowerLoss
  <2> QED
    BY <2>1
<1>7. CASE DataReset
  BY <1>7 DEF DataReset
<1> QED
  BY <1>4, <1>5, <1>6, <1>7 DEF Next

(* Where the floor a command carries comes from: it is the one it carried,  *)
(* the one load_state returned, or a version RAUC has just marked good.     *)
LEMMA LocSources ==
  ASSUME IInv, Next, NEW q \in Procs, pc'[q] \in HoldsState
  PROVE  \/ pc[q] \in HoldsState /\ loc'[q].floor = loc[q].floor
         \/ mode = "up" /\ Loadable /\ loc'[q].floor = Loaded.floor
         \/ loc'[q].floor \in MarkedVersions'
<1> DEFINE Goal ==
      \/ pc[q] \in HoldsState /\ loc'[q].floor = loc[q].floor
      \/ mode = "up" /\ Loadable /\ loc'[q].floor = Loaded.floor
      \/ loc'[q].floor \in MarkedVersions'
<1>t. pc \in [Procs -> Labels] /\ loc \in [Procs -> OtaState \cup {NoState}]
  BY DEF IInv, TypeOK
<1>1. ASSUME pc[q] \in HoldsState, loc'[q] = loc[q]
      PROVE  Goal
  BY <1>1
<1>2. ASSUME NEW p \in Procs, ToolStep(p), p # q
      PROVE  Goal
  <2>1. CASE Reboot(p)
    BY <2>1 DEF Reboot, PowerOff, HoldsState, InstallLabels
  <2>2. CASE ~Reboot(p)
    <3>1. pc'[q] = pc[q] /\ loc'[q] = loc[q]
      BY <1>2, <2>2, <1>t
      DEF ToolStep, ErrLoad, ErrSave, RenameFails, RebootFails,
          RaucInstallBegin, RaucInstallEnd, RaucInstallFails, PendingSlot,
          InstallSave, MarkGoodLoad, MarkGoodRauc, MarkGoodSave, PersistFloor,
          RollbackMark, RollbackLoad, RollbackSave, Return, ReturnFailed,
          Bail, Goto
    <3> QED
      BY <3>1, <1>1
  <2> QED
    BY <2>1, <2>2
<1>3. ASSUME ToolStep(q)
      PROVE  Goal
  <2>1. ASSUME Return(q) \/ ReturnFailed(q) \/ Bail(q)
        PROVE  Goal
    BY <2>1, <1>t DEF Return, ReturnFailed, Bail, Goto, Finished, HoldsState,
                      InstallLabels
  <2>2. CASE ErrLoad(q)
    BY <2>1, <2>2, <1>t DEF ErrLoad, At
  <2>3. CASE ErrSave(q) \/ RenameFails(q) \/ RebootFails(q) \/ RaucInstallFails(q)
               \/ PersistFloor(q)
    BY <2>1, <2>3 DEF ErrSave, RenameFails, RebootFails, RaucInstallFails,
                      PersistFloor
  <2>4. CASE Reboot(q)
    BY <2>4 DEF Reboot, PowerOff, HoldsState, InstallLabels
  <2>5. CASE RaucInstallBegin(q) \/ RaucInstallEnd(q)
    BY <2>5, <1>1 DEF RaucInstallBegin, RaucInstallEnd, At, HoldsState,
                      InstallLabels
  <2>6. CASE PendingSlot(q)
    <3>1. loc[q] \in OtaState /\ pc[q] \in HoldsState
      BY <2>6 DEF PendingSlot, At, IInv, Carries, HoldsState, InstallLabels
    <3>2. CASE ~Bail(q)
      <4>1. loc'[q] = [loc[q] EXCEPT !.pending = ver[q], !.slot = NamedSlot]
        BY <2>6, <3>1, <3>2, <1>t DEF PendingSlot, OtaState
      <4>2. loc'[q].floor = loc[q].floor
        BY <3>1, <4>1 DEF OtaState
      <4> QED
        BY <3>1, <4>2
    <3> QED
      BY <2>1, <3>2
  <2>7. CASE InstallSave(q) \/ MarkGoodSave(q)
    BY <2>7, <2>1, <1>1 DEF InstallSave, MarkGoodSave, At, HoldsState,
                            InstallLabels
  <2>8. CASE RollbackSave(q)
    BY <2>8, <2>1, <1>1 DEF RollbackSave, At, HoldsState, InstallLabels
  <2>9. CASE MarkGoodLoad(q)
    BY <2>9, <2>1, <1>t DEF MarkGoodLoad, At
  <2>10. CASE MarkGoodRauc(q)
    <3>1. /\ loc[q] \in OtaState /\ pc[q] \in HoldsState
          /\ ver[q] \in Versions
      BY <2>10 DEF MarkGoodRauc, At, IInv, Carries, HoldsState, HoldsVersion,
                   InstallLabels
    <3>2. CASE ~Bail(q)
      <4>1. /\ loc'[q].floor = Max2(ver[q], loc[q].floor)
            /\ <<ver[q], image[booted]>> \in marked'
        BY <2>10, <3>2, <1>t DEF MarkGoodRauc, Bail
      <4>2. ver[q] \in MarkedVersions'
        BY <4>1 DEF MarkedVersions
      <4> QED
        BY <3>1, <4>1, <4>2 DEF Max2
    <3> QED
      BY <2>1, <3>2
  <2>11. CASE RollbackMark(q)
    BY <2>11, <2>1, <1>t DEF RollbackMark, Goto, HoldsState, InstallLabels
  <2>12. CASE RollbackLoad(q)
    <3>1. CASE ~Bail(q)
      <4>1. /\ loc'[q] = [Loaded EXCEPT !.pending = 0, !.slot = "none"]
            /\ mode = "up" /\ Loadable
        BY <2>12, <3>1, <1>t DEF RollbackLoad, At
      <4>2. Loaded \in OtaState
        BY <4>1, LoadedState DEF IInv
      <4>3. loc'[q].floor = Loaded.floor
        BY <4>1, <4>2 DEF OtaState
      <4> QED
        BY <4>1, <4>3
    <3> QED
      BY <2>1, <3>1
  <2> QED
    BY <1>3, <2>2, <2>3, <2>4, <2>5, <2>6, <2>7, <2>8, <2>9, <2>10, <2>11,
       <2>12
    DEF ToolStep
<1>4. ASSUME NEW m \in Manifests, Install(m)
      PROVE  Goal
  BY <1>4, <1>t, <1>1 DEF Install, Issue, At, Goto, HoldsState, InstallLabels
<1>5. CASE (\E v \in Versions \cup {0} : MarkGood(v)) \/ Rollback \/ Gate
  BY <1>5, <1>t, <1>1 DEF MarkGood, Rollback, Gate, HealthGatePasses,
         HealthGateFails, GateAborts, Goto, HoldsState, InstallLabels
<1>6. CASE Chooser \/ PowerCycle \/ Writeback \/ DataReset
  BY <1>6, <1>1 DEF Chooser, BootUserspace, BootPanics, NoBootableSlot,
         PowerCycle, Writeback, DataReset, procVars, HoldsState, InstallLabels
<1>7. CASE PlannedReboot \/ PowerLoss
  BY <1>7 DEF PlannedReboot, PowerLoss, PowerOff, HoldsState, InstallLabels
<1> QED
  BY <1>2, <1>3, <1>4, <1>5, <1>6, <1>7 DEF Next, Operator

(* The rollback floor found on the device is the initial one, the trusted   *)
(* one, or a version RAUC has marked good, whatever fails or overlaps.      *)
THEOREM FloorIsProven == Spec => []FloorProven
<1> DEFINE FInv == FloorProven /\ LocProven
<1>1. Init => FInv
  <2> SUFFICES ASSUME Init PROVE FInv
    OBVIOUS
  <2>1. FloorProven
    BY NoStateAssumption DEF Init, FloorProven, Proven
  <2>2. LocProven
    BY DEF Init, LocProven, HoldsState, InstallLabels
  <2> QED
    BY <2>1, <2>2
<1>2. IInv /\ FInv /\ [Next]_vars => FInv'
  <2> SUFFICES ASSUME IInv, FInv, [Next]_vars PROVE FInv'
    OBVIOUS
  <2>1. CASE UNCHANGED vars
    BY <2>1 DEF vars, FloorProven, LocProven, Proven, MarkedVersions
  <2>2. CASE Next
    <3>1. ASSUME NEW x, Proven(x)
          PROVE  x \in {0, DefaultFloor, TrustedFloor} \cup MarkedVersions'
      BY <2>2, <3>1, MarkedGrows DEF Proven
    <3>2. ASSUME NEW q \in Procs, pc'[q] \in HoldsState
          PROVE  loc'[q].floor \in {0, DefaultFloor, TrustedFloor} \cup MarkedVersions'
      <4>1. CASE pc[q] \in HoldsState /\ loc'[q].floor = loc[q].floor
        BY <4>1, <3>1 DEF LocProven
      <4>2. CASE mode = "up" /\ Loadable /\ loc'[q].floor = Loaded.floor
        BY <4>2, <3>1, LoadedProven
      <4>3. CASE loc'[q].floor \in MarkedVersions'
        BY <4>3
      <4> QED
        BY <4>1, <4>2, <4>3, <2>2, <3>2, LocSources
    <3>3. ASSUME NEW f \in {file', disk'}
          PROVE  /\ f.mirror \in {0, DefaultFloor, TrustedFloor} \cup MarkedVersions'
                 /\ f.state \in OtaState =>
                      f.state.floor \in {0, DefaultFloor, TrustedFloor} \cup MarkedVersions'
      <4>1. /\ Proven(0) /\ Proven(file.mirror) /\ Proven(disk.mirror)
            /\ file.state \in OtaState => Proven(file.state.floor)
            /\ disk.state \in OtaState => Proven(disk.state.floor)
            /\ \A p \in Procs : pc[p] \in HoldsState => Proven(loc[p].floor)
        BY DEF FloorProven, LocProven, Proven
      <4>2. Proven(f.mirror)
        BY <4>1, <2>2, FileSources
      <4>3. f.state \in OtaState => Proven(f.state.floor)
        BY <4>1, <2>2, FileSources, NoStateAssumption
      <4> QED
        BY <4>2, <4>3, <3>1
    <3> QED
      BY <3>2, <3>3 DEF FloorProven, LocProven, Proven
  <2> QED
    BY <2>1, <2>2
<1> QED
  BY <1>1, <1>2, Invariance, PTL DEF Spec

----------------------------------------------------------------------------
(* Without overlapping commands the rollback floor is monotone.             *)

Outside == {"down", "gate", "idle", "exit"}

Exclusive ==
  \A p, q \in Procs : p # q => pc[p] \in Outside \/ pc[q] \in Outside

(* A command works on the state that is in the file: nobody else writes it  *)
(* between its load and its save.                                          *)
Fresh ==
  \A p \in Procs :
    /\ pc[p] \in HoldsState =>
         file.state # Corrupt /\ loc[p].floor >= EffectiveFloor(file)
    /\ pc[p] = "mg_floor" => file.state # NoState
    /\ pc[p] \in {"in_rauc", "in_write"} => ver[p] >= EffectiveFloor(file)

Stopped == mode # "up" => \A p \in Procs : pc[p] = "down"

(* No process has lost its temporary file to the other one.                *)
Owned == \A p \in Procs : tmp[p] = "own"

Apart == Exclusive /\ Fresh /\ Stopped
SInv == Exclusive /\ Fresh /\ Stopped /\ Owned

Puts(s) == file' = [file EXCEPT !.state = s]

(* A command that runs alone renames the file it has written.               *)
LEMMA SavesAlone ==
  ASSUME SInv, NEW p \in Procs, pc[p] \notin Outside
  PROVE  /\ SaveState(p) => Puts(loc[p]) /\ tmp' = tmp
         /\ SaveMirror(p) => /\ file' = [file EXCEPT !.mirror = loc[p].floor]
                             /\ tmp' = tmp
         /\ SaveFails(p) => Fault /\ UNCHANGED <<file, tmp>>
         /\ ~RenameFails(p)
<1>1. \A q \in Procs : ~SharesTmp(p, q)
  BY DEF SInv, Exclusive, SharesTmp, SaveLabels, Outside
<1>2. tmp[p] = "own"
  BY DEF SInv, Owned
<1> QED
  BY <1>1, <1>2 DEF SaveState, SaveMirror, SaveFails, RenameFails, Takes, Puts

FloorKept ==
  file.state # Corrupt => /\ file'.state # Corrupt
                          /\ EffectiveFloor(file') >= EffectiveFloor(file)
WriteAllowed ==
  \A s \in Slots :
    image'[s] \notin {0, image[s]} => /\ file.state # Corrupt
                                      /\ image'[s] >= EffectiveFloor(file)

(* load_state returns the effective floor, a natural number.                *)
LEMMA LoadedFloor ==
  ASSUME IInv, file.state # Corrupt
  PROVE  /\ EffectiveFloor(file) \in Nat
         /\ Loadable
         /\ Loaded.floor = EffectiveFloor(file)
<1>1. /\ TrustedFloor \in Nat /\ DefaultFloor \in Nat
      /\ file.mirror \in Nat
      /\ file.state # NoState =>
           file.state \in OtaState /\ file.state.floor \in Nat
  BY MaxVersionAssumption, TrustedFloorAssumption, DefaultFloorAssumption
  DEF IInv, TypeOK, FileType, OtaState, Versions
<1>2. CASE file.state = NoState
  BY <1>1, <1>2 DEF EffectiveFloor, Max2, Loadable, Loaded, Stored, Seed
<1>3. CASE file.state # NoState
  BY <1>1, <1>3 DEF EffectiveFloor, Max2, Loadable, Loaded, Stored, OtaState
<1> QED
  BY <1>2, <1>3

(* Saving a copy of the state whose floor is not below the effective one    *)
(* makes the copy's floor the effective one.                               *)
LEMMA SavedFloor ==
  ASSUME IInv, NEW s \in OtaState, file.state # Corrupt,
         s.floor >= EffectiveFloor(file), Puts(s)
  PROVE  /\ file'.state = s
         /\ file'.state # Corrupt /\ file'.state # NoState
         /\ EffectiveFloor(file') = s.floor
         /\ FloorKept
<1>1. file'.state = s /\ s # Corrupt /\ s # NoState
  BY NoStateAssumption DEF Puts, IInv, TypeOK, FileType
<1>2. s.floor \in Nat /\ TrustedFloor \in Nat
  BY MaxVersionAssumption, TrustedFloorAssumption DEF OtaState, Versions
<1>3. EffectiveFloor(file) \in Nat /\ EffectiveFloor(file) >= TrustedFloor
  <2>1. EffectiveFloor(file) \in Nat
    BY LoadedFloor
  <2> QED
    BY <2>1, <1>2, MaxVersionAssumption, DefaultFloorAssumption
    DEF EffectiveFloor, Max2, IInv, TypeOK, FileType, OtaState, Versions
<1>4. EffectiveFloor(file') = s.floor
  BY <1>1, <1>2, <1>3 DEF EffectiveFloor, Max2
<1> QED
  BY <1>1, <1>2, <1>3, <1>4 DEF FloorKept

(* A step that writes neither the files nor a slot.                         *)
LEMMA QuietStep ==
  ASSUME IInv
  PROVE  /\ UNCHANGED file => FloorKept
         /\ UNCHANGED image => WriteAllowed
<1>1. UNCHANGED file => FloorKept
  BY LoadedFloor DEF FloorKept
<1> QED
  BY <1>1 DEF WriteAllowed

(* What p has to establish when only p moves and the other process is       *)
(* outside the tool.                                                       *)
FreshFor(p) ==
  /\ pc'[p] \in HoldsState =>
       file'.state # Corrupt /\ loc'[p].floor >= EffectiveFloor(file')
  /\ pc'[p] = "mg_floor" => file'.state # NoState
  /\ pc'[p] \in {"in_rauc", "in_write"} => ver'[p] >= EffectiveFloor(file')

(* One process moves, alone in the tool: the invariant holds again if its   *)
(* own copy of the state is fresh.                                         *)
LEMMA OneMoves ==
  ASSUME IInv, NEW p \in Procs, NEW l \in Labels,
         \A q \in Procs : q # p => pc[q] \in Outside,
         pc' = [pc EXCEPT ![p] = l], mode' = "up", FreshFor(p)
  PROVE  Apart'
<1>1. \A q \in Procs : pc'[q] = IF q = p THEN l ELSE pc[q]
  BY DEF IInv, TypeOK
<1>2. Exclusive'
  BY <1>1 DEF Exclusive
<1>3. Fresh'
  BY <1>1 DEF Fresh, FreshFor, Outside, HoldsState, InstallLabels
<1>4. Stopped'
  BY DEF Stopped
<1> QED
  BY <1>2, <1>3, <1>4 DEF Apart

(* A command that returns or bails out carries nothing any more.            *)
LEMMA SerialReturn ==
  ASSUME IInv, NEW p \in Procs, mode' = "up",
         \A q \in Procs : q # p => pc[q] \in Outside,
         Return(p) \/ ReturnFailed(p) \/ Bail(p)
  PROVE  Apart'
<1>1. PICK l \in {"exit", "idle", "rb_mark", "err_load"} :
        pc' = [pc EXCEPT ![p] = l]
  BY DEF Return, ReturnFailed, Bail, Goto, Finished
<1>2. pc'[p] = l /\ l \in Labels
  BY <1>1 DEF IInv, TypeOK, Labels
<1>3. FreshFor(p)
  BY <1>2 DEF FreshFor, HoldsState, InstallLabels
<1> QED
  BY <1>1, <1>2, <1>3, OneMoves

(* Every step of a command that runs alone.                                *)
LEMMA SerialToolStep ==
  ASSUME IInv, SInv, NEW p \in Procs, ToolStep(p)
  PROVE  Apart' /\ FloorKept /\ WriteAllowed
<1>1. mode = "up" /\ pc[p] \notin Outside
  BY DEF ToolStep, ErrLoad, ErrSave, RenameFails, SaveLabels, Reboot, RebootFails, RaucInstallBegin,
         RaucInstallEnd, RaucInstallFails, PendingSlot, InstallSave,
         MarkGoodLoad, MarkGoodRauc, MarkGoodSave, PersistFloor, RollbackMark,
         RollbackLoad, RollbackSave, At, Outside
<1>2. \A q \in Procs : q # p => pc[q] \in Outside
  BY <1>1 DEF SInv, Exclusive
<1>s. /\ SaveState(p) => Puts(loc[p])
      /\ SaveMirror(p) => file' = [file EXCEPT !.mirror = loc[p].floor]
      /\ SaveFails(p) => UNCHANGED file
      /\ ~RenameFails(p)
  BY <1>1, SavesAlone
<1>t. /\ pc \in [Procs -> Labels] /\ ver \in [Procs -> Versions \cup {0}]
      /\ loc \in [Procs -> OtaState \cup {NoState}]
  BY DEF IInv, TypeOK
<1>h. pc[p] \in HoldsState => /\ loc[p] \in OtaState
                              /\ file.state # Corrupt
                              /\ loc[p].floor >= EffectiveFloor(file)
  BY DEF IInv, Carries, SInv, Fresh
<1>q. /\ UNCHANGED file => FloorKept
      /\ UNCHANGED image => WriteAllowed
  BY QuietStep
<1>e. Loadable => /\ file.state # Corrupt
                  /\ Loaded.floor = EffectiveFloor(file)
                  /\ EffectiveFloor(file) \in Nat
                  /\ Loaded \in OtaState
  BY <1>1, LoadedFloor, LoadedState DEF Loadable, IInv
<1>r. ASSUME Return(p) \/ ReturnFailed(p) \/ Bail(p), mode' = mode
      PROVE  Apart'
  BY <1>1, <1>2, <1>r, SerialReturn
<1>3. CASE ErrLoad(p) \/ MarkGoodLoad(p) \/ RollbackLoad(p)
  <2>1. FloorKept /\ WriteAllowed /\ mode' = mode
    BY <1>3, <1>q DEF ErrLoad, MarkGoodLoad, RollbackLoad, machine
  <2>2. CASE ~(ReturnFailed(p) \/ Bail(p))
    <3>1. PICK l \in {"err_save", "mg_rauc", "rb_save"} :
            pc' = [pc EXCEPT ![p] = l]
      BY <1>3, <2>2 DEF ErrLoad, MarkGoodLoad, RollbackLoad, Goto
    <3>2. /\ Loadable /\ file' = file
          /\ loc' = [loc EXCEPT ![p] = Loaded]
               \/ loc' = [loc EXCEPT ![p] = [Loaded EXCEPT !.pending = 0,
                                                           !.slot = "none"]]
      BY <1>3, <2>2 DEF ErrLoad, MarkGoodLoad, RollbackLoad
    <3>3. loc'[p].floor = EffectiveFloor(file) /\ EffectiveFloor(file) \in Nat
      BY <3>2, <1>e, <1>t DEF OtaState
    <3>4. pc'[p] = l /\ l \in Labels
      BY <3>1, <1>t DEF Labels
    <3>5. FreshFor(p)
      BY <3>2, <3>3, <3>4, <1>e DEF FreshFor
    <3> QED
      BY <2>1, <1>1, <1>2, <3>1, <3>4, <3>5, OneMoves
  <2> QED
    BY <2>1, <2>2, <1>r
<1>4. CASE ErrSave(p)
  <2>1. pc[p] \in HoldsState /\ mode' = mode /\ WriteAllowed
    BY <1>4, <1>q DEF ErrSave, At, HoldsState, machine
  <2>2. FloorKept
    BY <1>4, <1>h, <1>q, <1>s, <2>1, SavedFloor DEF ErrSave
  <2> QED
    BY <1>4, <1>r, <2>1, <2>2 DEF ErrSave
<1>5. CASE Reboot(p)
  <2>1. FloorKept /\ WriteAllowed
    BY <1>5, <1>q DEF Reboot
  <2>2. Apart'
    BY <1>5 DEF Reboot, PowerOff, Apart, Exclusive, Fresh, Stopped, Outside,
                HoldsState, InstallLabels
  <2> QED
    BY <2>1, <2>2
<1>6. CASE RebootFails(p) \/ RaucInstallFails(p)
  BY <1>6, <1>q, <1>r DEF RebootFails, RaucInstallFails, machine
<1>7. CASE RaucInstallBegin(p)
  <2>1. FloorKept /\ WriteAllowed
    BY <1>7, <1>q DEF RaucInstallBegin, WriteAllowed, IInv, TypeOK, Target,
                      Other
  <2>2. FreshFor(p)
    BY <1>7, <1>t DEF RaucInstallBegin, At, Goto, FreshFor, SInv, Fresh,
                      HoldsState, InstallLabels
  <2>3. Apart'
    BY <1>1, <1>2, <1>7, <2>2, OneMoves DEF RaucInstallBegin, Goto, Labels
  <2> QED
    BY <2>1, <2>3
<1>8. CASE RaucInstallEnd(p)
  <2>1. file.state # Corrupt /\ ver[p] >= EffectiveFloor(file)
    BY <1>8 DEF RaucInstallEnd, At, SInv, Fresh, HoldsState, InstallLabels
  <2>2. FloorKept /\ WriteAllowed
    BY <1>8, <1>q, <2>1 DEF RaucInstallEnd, WriteAllowed, IInv, TypeOK, Target,
                            Other
  <2>3. FreshFor(p)
    BY <1>8, <1>t DEF RaucInstallEnd, At, Goto, FreshFor, SInv, Fresh,
                      HoldsState, InstallLabels
  <2>4. Apart'
    BY <1>1, <1>2, <1>8, <2>3, OneMoves DEF RaucInstallEnd, Goto, Labels
  <2> QED
    BY <2>2, <2>4
<1>9. CASE PendingSlot(p)
  <2>1. /\ FloorKept /\ WriteAllowed /\ mode' = mode /\ file' = file
        /\ pc[p] \in HoldsState
    BY <1>9, <1>q DEF PendingSlot, machine, At, HoldsState, InstallLabels
  <2>2. CASE ~Bail(p)
    <3>1. /\ pc' = [pc EXCEPT ![p] = "in_save"]
          /\ loc'[p] = [loc[p] EXCEPT !.pending = ver[p], !.slot = NamedSlot]
      BY <1>9, <2>1, <2>2, <1>h, <1>t DEF PendingSlot, Goto, OtaState
    <3>2. loc'[p].floor = loc[p].floor
      BY <3>1, <2>1, <1>h DEF OtaState
    <3>3. FreshFor(p)
      BY <2>1, <3>1, <3>2, <1>h, <1>t DEF FreshFor
    <3> QED
      BY <1>1, <1>2, <2>1, <3>1, <3>3, OneMoves DEF Labels
  <2> QED
    BY <2>1, <2>2, <1>r
<1>10. CASE InstallSave(p) \/ RollbackSave(p) \/ MarkGoodSave(p)
  <2>1. pc[p] \in HoldsState /\ mode' = mode /\ WriteAllowed
    BY <1>10, <1>q DEF InstallSave, RollbackSave, MarkGoodSave, At, HoldsState,
                       InstallLabels, machine
  <2>2. FloorKept
    BY <1>10, <1>h, <1>q, <1>s, <2>1, SavedFloor
    DEF InstallSave, RollbackSave, MarkGoodSave
  <2>3. CASE ~(Bail(p) \/ Return(p))
    <3>1. PICK l \in {"reboot", "mg_floor"} : pc' = [pc EXCEPT ![p] = l]
      BY <1>10, <2>3 DEF InstallSave, RollbackSave, MarkGoodSave, Goto
    <3>2. Puts(loc[p]) /\ loc' = loc
      BY <1>10, <1>s, <2>3 DEF InstallSave, RollbackSave, MarkGoodSave
    <3>3. pc'[p] = l /\ l \in Labels
      BY <3>1, <1>t DEF Labels
    <3>4. /\ file'.state # Corrupt /\ file'.state # NoState
          /\ EffectiveFloor(file') = loc[p].floor
          /\ loc[p].floor \in Nat
      BY <2>1, <3>2, <1>h, SavedFloor, MaxVersionAssumption
      DEF OtaState, Versions
    <3>5. FreshFor(p)
      BY <3>2, <3>3, <3>4 DEF FreshFor
    <3> QED
      BY <1>1, <1>2, <2>1, <2>2, <3>1, <3>3, <3>5, OneMoves
  <2> QED
    BY <2>1, <2>2, <2>3, <1>r
<1>11. CASE MarkGoodRauc(p)
  <2>1. /\ FloorKept /\ WriteAllowed /\ mode' = mode /\ file' = file
        /\ pc[p] \in HoldsState /\ pc[p] \in HoldsVersion
    BY <1>11, <1>q DEF MarkGoodRauc, At, HoldsState, HoldsVersion
  <2>2. CASE ~Bail(p)
    <3>1. /\ pc' = [pc EXCEPT ![p] = "mg_save"]
          /\ loc'[p].floor = Max2(ver[p], loc[p].floor)
      BY <1>11, <2>2, <1>t DEF MarkGoodRauc, Goto, Bail
    <3>2. /\ ver[p] \in Nat /\ loc[p].floor \in Nat
          /\ EffectiveFloor(file) \in Nat
      BY <2>1, <1>h, LoadedFloor, MaxVersionAssumption
      DEF IInv, Carries, OtaState, Versions
    <3>3. loc'[p].floor >= EffectiveFloor(file)
      BY <2>1, <3>1, <3>2, <1>h DEF Max2
    <3>4. FreshFor(p)
      BY <2>1, <3>1, <3>3, <1>h, <1>t DEF FreshFor
    <3> QED
      BY <1>1, <1>2, <2>1, <3>1, <3>4, OneMoves DEF Labels
  <2> QED
    BY <2>1, <2>2, <1>r
<1>12. CASE PersistFloor(p)
  <2>1. /\ mode' = mode /\ WriteAllowed
        /\ file.state # NoState /\ file.state # Corrupt
    BY <1>12, <1>q DEF PersistFloor, machine, At, SInv, Fresh, HoldsState
  <2>2. file'.state = file.state
    BY <1>12, <1>s DEF PersistFloor, IInv, TypeOK, FileType
  <2>3. EffectiveFloor(file') = EffectiveFloor(file)
    BY <2>1, <2>2 DEF EffectiveFloor
  <2>4. FloorKept
    BY <2>1, <2>2, <2>3, LoadedFloor DEF FloorKept
  <2> QED
    BY <1>12, <1>r, <2>1, <2>4 DEF PersistFloor
<1>13. CASE RollbackMark(p)
  <2>1. FloorKept /\ WriteAllowed /\ mode' = mode
    BY <1>13, <1>q DEF RollbackMark
  <2>2. CASE ~Bail(p)
    <3>1. pc' = [pc EXCEPT ![p] = "rb_load"]
      BY <1>13, <2>2 DEF RollbackMark, Goto
    <3>2. FreshFor(p)
      BY <3>1, <1>t DEF FreshFor, HoldsState, InstallLabels
    <3> QED
      BY <1>1, <1>2, <2>1, <3>1, <3>2, OneMoves DEF Labels
  <2> QED
    BY <2>1, <2>2, <1>r
<1> QED
  BY <1>s, <1>3, <1>4, <1>5, <1>6, <1>7, <1>8, <1>9, <1>10, <1>11, <1>12, <1>13
  DEF ToolStep

(* Entering the tool: the other process is outside, and an install that     *)
(* the policy accepts is not below the floor.                              *)
LEMMA SerialStart ==
  ASSUME Overlap = FALSE, IInv, SInv, Operator \/ Gate
  PROVE  Apart' /\ FloorKept /\ WriteAllowed
<1>t. /\ pc \in [Procs -> Labels] /\ ver \in [Procs -> Versions \cup {0}]
      /\ loc \in [Procs -> OtaState \cup {NoState}]
  BY DEF IInv, TypeOK
<1>1. FloorKept /\ WriteAllowed
  BY QuietStep DEF Operator, Install, MarkGood, Rollback, Gate,
         HealthGatePasses, HealthGateFails, GateAborts, machine
<1>m. ASSUME NEW p \in Procs, MayEnter(p)
      PROVE  \A q \in Procs : q # p => pc[q] \in Outside
  BY <1>m DEF MayEnter, Outside
<1>2. ASSUME NEW m \in Manifests, Install(m)
      PROVE  Apart'
  <2>1. /\ mode = "up" /\ mode' = "up" /\ file' = file
        /\ \A q \in Procs : q # "operator" => pc[q] \in Outside
    BY <1>2, <1>m DEF Install, Issue, At, machine
  <2>2. CASE Loadable /\ PolicyAccepts(m, Loaded)
    <3>1. /\ pc' = [pc EXCEPT !["operator"] = "in_rauc"]
          /\ loc'["operator"] = Loaded
          /\ ver'["operator"] = m.version
      BY <1>2, <2>2, <1>t DEF Install, Goto
    <3>2. /\ Loaded.floor = EffectiveFloor(file)
          /\ EffectiveFloor(file) \in Nat /\ file.state # Corrupt
      BY <2>2, LoadedFloor DEF Loadable
    <3>3. m.version >= EffectiveFloor(file)
      BY <2>2, <3>2 DEF PolicyAccepts
    <3>4. FreshFor("operator")
      BY <2>1, <3>1, <3>2, <3>3, <1>t DEF FreshFor
    <3> QED
      BY <2>1, <3>1, <3>4, OneMoves DEF Labels
  <2>3. CASE ~(Loadable /\ PolicyAccepts(m, Loaded))
    <3>1. pc' = [pc EXCEPT !["operator"] = "err_load"]
      BY <1>2, <2>3 DEF Install, Goto
    <3>2. FreshFor("operator")
      BY <3>1, <1>t DEF FreshFor, HoldsState, InstallLabels
    <3> QED
      BY <2>1, <3>1, <3>2, OneMoves DEF Labels
  <2> QED
    BY <2>2, <2>3
<1>3. CASE (\E v \in Versions \cup {0} : MarkGood(v)) \/ Rollback
  <2>1. PICK l \in {"mg_load", "rb_mark"} :
          pc' = [pc EXCEPT !["operator"] = l]
    BY <1>3 DEF MarkGood, Rollback, Goto
  <2>2. mode' = "up" /\ \A q \in Procs : q # "operator" => pc[q] \in Outside
    BY <1>3, <1>m DEF MarkGood, Rollback, Issue, At, machine
  <2>3. pc'["operator"] = l /\ l \in Labels
    BY <2>1, <1>t DEF Labels
  <2>4. FreshFor("operator")
    BY <2>3 DEF FreshFor, HoldsState, InstallLabels
  <2> QED
    BY <1>1, <2>1, <2>2, <2>3, <2>4, OneMoves
<1>4. CASE HealthGatePasses \/ HealthGateFails
  <2>1. PICK l \in {"mg_load", "rb_mark"} : pc' = [pc EXCEPT !["gate"] = l]
    BY <1>4 DEF HealthGatePasses, HealthGateFails, Goto
  <2>2. mode' = "up" /\ \A q \in Procs : q # "gate" => pc[q] \in Outside
    BY <1>4, <1>m DEF HealthGatePasses, HealthGateFails, At, machine
  <2>3. pc'["gate"] = l /\ l \in Labels
    BY <2>1, <1>t DEF Labels
  <2>4. FreshFor("gate")
    BY <2>3 DEF FreshFor, HoldsState, InstallLabels
  <2> QED
    BY <1>1, <2>1, <2>2, <2>3, <2>4, OneMoves
<1>5. CASE GateAborts
  <2>1. /\ mode' = "up" /\ UNCHANGED <<file, loc, ver>>
        /\ \A q \in Procs : pc'[q] = IF q = "gate" THEN "exit" ELSE pc[q]
    BY <1>5, <1>t DEF GateAborts, At, Goto
  <2>2. Exclusive'
    BY <2>1 DEF SInv, Exclusive, Outside
  <2>3. Fresh' /\ Stopped'
    BY <2>1 DEF SInv, Fresh, Stopped, HoldsState, InstallLabels
  <2> QED
    BY <1>1, <2>2, <2>3 DEF Apart
<1> QED
  BY <1>1, <1>2, <1>3, <1>4, <1>5 DEF Operator, Gate

(* Nobody is in the tool while the device boots, and a device that goes     *)
(* down stops every command.                                               *)
LEMMA SerialMachine ==
  ASSUME IInv, SInv,
         Chooser \/ PowerCycle \/ PlannedReboot \/ Writeback \/ PowerLoss
           \/ DataReset
  PROVE  /\ Apart' /\ WriteAllowed
         /\ FloorKept \/ PowerLoss \/ DataReset
<1>1. WriteAllowed
  BY QuietStep DEF Chooser, BootUserspace, BootPanics, NoBootableSlot,
         PowerCycle, PlannedReboot, Writeback, PowerLoss, DataReset, machine
<1>2. FloorKept \/ PowerLoss \/ DataReset
  BY QuietStep DEF Chooser, BootUserspace, BootPanics, NoBootableSlot,
         PowerCycle, PlannedReboot, Writeback
<1>d. ASSUME \A p \in Procs : pc'[p] \in Outside,
             mode' # "up" => \A p \in Procs : pc'[p] = "down"
      PROVE  Apart'
  BY <1>d DEF Apart, Exclusive, Fresh, Stopped, Outside, HoldsState,
              InstallLabels
<1>3. CASE Chooser \/ PowerCycle \/ DataReset
  <2>1. mode # "up"
    BY <1>3 DEF Chooser, BootUserspace, BootPanics, NoBootableSlot, PowerCycle,
                DataReset
  <2>2. \A p \in Procs : pc[p] = "down"
    BY <2>1 DEF SInv, Stopped
  <2>3. CASE \E s \in Slots : BootUserspace(s)
    BY <1>1, <1>2, <2>3, <1>d DEF BootUserspace, Outside
  <2>4. CASE ~\E s \in Slots : BootUserspace(s)
    <3>1. pc' = pc
      BY <1>3, <2>4 DEF Chooser, BootPanics, NoBootableSlot, PowerCycle,
                        DataReset, procVars
    <3> QED
      BY <1>1, <1>2, <3>1, <2>2, <1>d DEF Outside
  <2> QED
    BY <2>3, <2>4
<1>4. CASE PlannedReboot \/ PowerLoss
  BY <1>1, <1>2, <1>4, <1>d DEF PlannedReboot, PowerLoss, PowerOff, Outside
<1>5. CASE Writeback
  BY <1>1, <1>2, <1>5 DEF Writeback, machine, procVars, SInv, Apart, Exclusive, Fresh,
                           Stopped
<1> QED
  BY <1>1, <1>2, <1>3, <1>4, <1>5

(* The serial invariant holds initially.                                   *)
LEMMA InitSInv == Init => SInv
BY DEF Init, SInv, Exclusive, Fresh, Stopped, Owned, Outside, HoldsState,
       InstallLabels

(* Every process keeps its temporary file.                                  *)
LEMMA OwnedStep ==
  ASSUME SInv, Next
  PROVE  Owned'
<1>s. UNCHANGED tmp => Owned'
  BY DEF SInv, Owned
<1>o. PowerOff => Owned'
  BY DEF PowerOff, Owned
<1>1. ASSUME NEW p \in Procs, ToolStep(p)
      PROVE  Owned'
  <2>1. CASE ErrSave(p) \/ InstallSave(p) \/ MarkGoodSave(p) \/ PersistFloor(p)
               \/ RollbackSave(p) \/ RenameFails(p)
    <3>1. pc[p] \notin Outside
      BY <2>1 DEF ErrSave, InstallSave, MarkGoodSave, PersistFloor,
                  RollbackSave, RenameFails, SaveLabels, At, Outside
    <3>2. UNCHANGED tmp
      BY <2>1, <3>1, SavesAlone
      DEF ErrSave, InstallSave, MarkGoodSave, PersistFloor, RollbackSave
    <3> QED
      BY <3>2, <1>s
  <2>2. CASE Reboot(p)
    BY <2>2, <1>o DEF Reboot
  <2>3. CASE ErrLoad(p) \/ RebootFails(p) \/ RaucInstallBegin(p)
               \/ RaucInstallEnd(p) \/ RaucInstallFails(p) \/ PendingSlot(p)
               \/ MarkGoodLoad(p) \/ MarkGoodRauc(p) \/ RollbackMark(p)
               \/ RollbackLoad(p)
    BY <2>3, <1>s DEF ErrLoad, RebootFails, RaucInstallBegin, RaucInstallEnd,
           RaucInstallFails, PendingSlot, MarkGoodLoad, MarkGoodRauc,
           RollbackMark, RollbackLoad
  <2> QED
    BY <1>1, <2>1, <2>2, <2>3 DEF ToolStep
<1>2. CASE Operator \/ Gate \/ Chooser \/ PowerCycle \/ Writeback \/ DataReset
  BY <1>2, <1>s DEF Operator, Install, MarkGood, Rollback, Gate,
         HealthGatePasses, HealthGateFails, GateAborts, Chooser, BootUserspace,
         BootPanics, NoBootableSlot, PowerCycle, Writeback, DataReset
<1>3. CASE PlannedReboot \/ PowerLoss
  BY <1>3, <1>o DEF PlannedReboot, PowerLoss
<1> QED
  BY <1>1, <1>2, <1>3 DEF Next

(* Every step of a device on which commands do not overlap.                 *)
LEMMA SerialStep ==
  ASSUME Overlap = FALSE, IInv, SInv, Next
  PROVE  /\ SInv' /\ WriteAllowed
         /\ FloorKept \/ PowerLoss \/ DataReset
<1>1. Apart' /\ WriteAllowed /\ (FloorKept \/ PowerLoss \/ DataReset)
  BY SerialToolStep, SerialStart, SerialMachine DEF Next
<1> QED
  BY <1>1, OwnedStep DEF SInv, Apart

(* SInv is an invariant of a device on which commands do not overlap.       *)
THEOREM SerialInvariance ==
  ASSUME Overlap = FALSE
  PROVE  Spec => []SInv
<1>1. IInv /\ SInv /\ [Next]_vars => SInv'
  <2> SUFFICES ASSUME IInv, SInv, [Next]_vars PROVE SInv'
    OBVIOUS
  <2>1. CASE UNCHANGED vars
    BY <2>1 DEF vars, SInv, Exclusive, Fresh, Stopped, Owned
  <2> QED
    BY <2>1, SerialStep
<1> QED
  BY <1>1, InitSInv, Invariance, PTL DEF Spec

(* While commands do not overlap, the rollback floor that load_state finds  *)
(* never moves back, unless a power cut or a reset of /data takes the file. *)
THEOREM SerialFloorMonotone ==
  ASSUME Overlap = FALSE
  PROVE  Spec => FloorMonotone
<1> DEFINE Kept ==
      \/ PowerLoss \/ DataReset
      \/ Corrupt \in {file.state, file'.state}
      \/ EffectiveFloor(file') >= EffectiveFloor(file)
<1>1. IInv /\ SInv /\ [Next]_vars => [Kept]_vars
  BY SerialStep DEF FloorKept
<1> QED
  BY <1>1, Invariance, SerialInvariance, PTL DEF Spec, FloorMonotone

(* While commands do not overlap, no slot is written with a version below   *)
(* the rollback floor in force when it is written.                          *)
THEOREM SerialWritesAboveFloor ==
  ASSUME Overlap = FALSE
  PROVE  Spec => WritesAboveFloor
<1> DEFINE Allowed ==
      \A s \in Slots :
        image'[s] \notin {0, image[s]} => /\ file.state # Corrupt
                                          /\ image'[s] >= EffectiveFloor(file)
<1>1. IInv /\ SInv /\ [Next]_vars => [Allowed]_vars
  BY SerialStep DEF WriteAllowed
<1> QED
  BY <1>1, Invariance, SerialInvariance, PTL DEF Spec, WritesAboveFloor

----------------------------------------------------------------------------
(* Without overlapping commands and without faults, an announced update is  *)
(* installed and a version marked good is the one that runs.                *)

(* The update that state s announces is in the slot it names.               *)
InSlot(s, im) == s.pending # 0 => s.slot \in Slots /\ im[s.slot] = s.pending

(* What process p knows of the update, by label.                            *)
Knows(p) ==
  /\ pc[p] \in InstallLabels => p = "operator"
  /\ pc[p] \in {"mg_load", "mg_rauc", "mg_save", "mg_floor"} => p = "gate"
  /\ p = "gate" /\ pc[p] \in {"down", "gate", "mg_load"} => ver[p] = 0
  /\ pc[p] \in {"in_slot", "in_save"} =>
       env.primary = Target /\ image[Target] = ver[p]
  /\ pc[p] = "in_save" => loc[p].pending = ver[p] /\ loc[p].slot = Target
  /\ pc[p] = "mg_rauc" => ver[p] = image[booted]
  /\ pc[p] \in {"mg_save", "rb_save"} => loc[p].pending = 0
  /\ pc[p] = "err_save" => InSlot(loc[p], image)

FileKnows ==
  (pc["operator"] \notin InstallLabels /\ file.state \in OtaState)
    => InSlot(file.state, image)

UInv == (\A p \in Procs : Knows(p)) /\ FileKnows /\ MarkedVersionRan

(* Nothing fails.                                                          *)
LEMMA NoFault ==
  ASSUME Undisturbed, IInv
  PROVE  ~Fault
BY DEF Undisturbed, IInv, TypeOK, Fault

(* load_state returns what the file announces, or nothing.                  *)
LEMMA LoadedInSlot ==
  ASSUME IInv, mode = "up", Loadable, FileKnows,
         pc["operator"] \notin InstallLabels
  PROVE  Loaded \in OtaState /\ InSlot(Loaded, image)
<1>0. Loaded \in OtaState
  BY LoadedState DEF IInv
<1>1. CASE file.state = NoState
  <2>1. Loaded.pending = 0
    BY <1>1 DEF Loaded, Stored, Seed
  <2> QED
    BY <1>0, <2>1 DEF InSlot
<1>2. CASE file.state # NoState
  <2>1. file.state \in OtaState
    BY <1>2 DEF IInv, TypeOK, FileType, Loadable
  <2>2. Loaded.pending = file.state.pending /\ Loaded.slot = file.state.slot
    BY <1>2, <2>1 DEF Loaded, Stored, OtaState
  <2>3. InSlot(file.state, image)
    BY <2>1 DEF FileKnows
  <2> QED
    BY <1>0, <2>2, <2>3 DEF InSlot
<1> QED
  BY <1>1, <1>2

(* One process moves, alone in the tool.                                    *)
LEMMA OneKnows ==
  ASSUME IInv, UInv, NEW p \in Procs,
         \A q \in Procs : q # p => /\ pc[q] \in Outside /\ pc'[q] = pc[q]
                                   /\ ver'[q] = ver[q],
         Knows(p)'
  PROVE  \A q \in Procs : Knows(q)'
<1> SUFFICES ASSUME NEW q \in Procs, q # p
             PROVE  Knows(q)'
  OBVIOUS
<1>1. pc'[q] \in Outside /\ (q = "gate" /\ pc'[q] \in {"down", "gate", "mg_load"} => ver'[q] = 0)
  BY DEF UInv, Knows
<1> QED
  BY <1>1 DEF Knows, Outside, InstallLabels

(* A command that returns knows nothing any more, and the files stand.      *)
LEMMA ReturnKnows ==
  ASSUME IInv, UInv, NEW p \in Procs,
         \A q \in Procs : q # p => pc[q] \in Outside,
         Return(p) \/ ReturnFailed(p) \/ Bail(p)
  PROVE  /\ \A q \in Procs : Knows(q)'
         /\ pc'["operator"] \notin InstallLabels \/ pc'["operator"] = pc["operator"]
<1>1. PICK l \in {"exit", "idle", "rb_mark", "err_load"} : pc' = [pc EXCEPT ![p] = l]
  BY DEF Return, ReturnFailed, Bail, Goto, Finished
<1>2. \A q \in Procs : q # p => pc'[q] = pc[q] /\ ver'[q] = ver[q]
  BY <1>1 DEF IInv, TypeOK, Return, ReturnFailed, Bail
<1>3. pc'[p] = l
  BY <1>1 DEF IInv, TypeOK
<1>4. Knows(p)'
  BY <1>3 DEF Knows, InstallLabels
<1> QED
  BY <1>1, <1>2, <1>3, <1>4, OneKnows DEF InstallLabels

(* The steps of install.                                                   *)
LEMMA InstallKnows ==
  ASSUME Undisturbed, IInv, SInv, UInv, NEW p \in Procs,
         \/ RaucInstallBegin(p) \/ RaucInstallEnd(p) \/ RaucInstallFails(p)
         \/ PendingSlot(p) \/ InstallSave(p)
  PROVE  UInv'
<1>1. mode = "up" /\ pc[p] \in InstallLabels
  BY DEF RaucInstallBegin, RaucInstallEnd, RaucInstallFails, PendingSlot, InstallSave,
         At, InstallLabels
<1>2. p = "operator" /\ \A q \in Procs : q # p => pc[q] \in Outside
  BY <1>1 DEF UInv, Knows, SInv, Exclusive, Outside, InstallLabels
<1>3. ~Fault
  BY NoFault
<1>s. /\ SaveState(p) => Puts(loc[p])
      /\ SaveMirror(p) => file' = [file EXCEPT !.mirror = loc[p].floor]
      /\ SaveFails(p) => Fault /\ UNCHANGED file
  BY <1>1, SavesAlone DEF Outside, InstallLabels
<1>t. /\ pc \in [Procs -> Labels] /\ ver \in [Procs -> Versions \cup {0}]
      /\ loc \in [Procs -> OtaState \cup {NoState}] /\ loc[p] \in OtaState
      /\ image \in [Slots -> Versions \cup {0}] /\ env \in EnvType /\ booted \in Slots
      /\ Target \in Slots
  BY <1>1 DEF IInv, TypeOK, Carries, HoldsState, Target, Other
<1>m. marked' = marked /\ UNCHANGED booted
  BY DEF RaucInstallBegin, RaucInstallEnd, RaucInstallFails, PendingSlot, InstallSave, machine
<1>4. CASE RaucInstallBegin(p)
  <2>1. pc' = [pc EXCEPT ![p] = "in_write"] /\ UNCHANGED <<ver, loc>>
    BY <1>4 DEF RaucInstallBegin, Goto
  <2>2. Knows(p)'
    BY <1>2, <1>t, <2>1 DEF Knows, InstallLabels
  <2>3. FileKnows'
    BY <1>2, <1>t, <2>1 DEF FileKnows, InstallLabels
  <2> QED
    BY <1>2, <1>m, <1>t, <2>1, <2>2, <2>3, OneKnows DEF UInv, MarkedVersionRan
<1>5. CASE RaucInstallEnd(p)
  <2>1. pc' = [pc EXCEPT ![p] = "in_slot"] /\ UNCHANGED <<ver, loc, booted>>
    BY <1>5 DEF RaucInstallEnd, Goto
  <2>2. image'[Target] = ver[p] /\ Target' = Target
    BY <1>5, <1>t, <1>m DEF RaucInstallEnd, Target
  <2>3. env'.primary = Target
    BY <1>5, <1>t DEF RaucInstallEnd, RaucActivate, EnvType
  <2>4. Knows(p)'
    BY <1>2, <1>t, <2>1, <2>2, <2>3 DEF Knows, InstallLabels
  <2>5. FileKnows'
    BY <1>2, <1>t, <2>1 DEF FileKnows, InstallLabels
  <2> QED
    BY <1>2, <1>m, <1>t, <2>1, <2>4, <2>5, OneKnows DEF UInv, MarkedVersionRan
<1>6. CASE RaucInstallFails(p)
  BY <1>3, <1>6 DEF RaucInstallFails
<1>7. CASE PendingSlot(p)
  <2>1. /\ pc[p] = "in_slot" /\ pc' = [pc EXCEPT ![p] = "in_save"]
        /\ loc' = [loc EXCEPT ![p].pending = ver[p], ![p].slot = NamedSlot]
        /\ UNCHANGED <<env, image, booted, ver>>
    BY <1>3, <1>7 DEF PendingSlot, Goto, machine, At
  <2>2. env.primary = Target /\ image[Target] = ver[p] /\ NamedSlot = Target /\ Target' = Target
    BY <2>1 DEF UInv, Knows, NamedSlot, Undisturbed, Target
  <2>3. loc'[p].pending = ver[p] /\ loc'[p].slot = Target
    BY <1>t, <2>1, <2>2 DEF OtaState
  <2>4. Knows(p)'
    BY <1>2, <1>t, <2>1, <2>2, <2>3 DEF Knows, InstallLabels
  <2>5. FileKnows'
    BY <1>2, <1>t, <2>1 DEF FileKnows, InstallLabels
  <2> QED
    BY <1>2, <1>m, <1>t, <2>1, <2>4, <2>5, OneKnows DEF UInv, MarkedVersionRan
<1>8. CASE InstallSave(p)
  <2>1. /\ pc[p] = "in_save" /\ Puts(loc[p]) /\ UNCHANGED image
        /\ (Goto(p, "reboot") /\ UNCHANGED <<cmd, loc, ver>>) \/ Return(p)
    BY <1>3, <1>8, <1>s DEF InstallSave, At, machine
  <2>2. InSlot(loc[p], image)
    BY <1>t, <2>1 DEF UInv, Knows, InSlot
  <2>3. file'.state = loc[p]
    BY <2>1 DEF Puts, IInv, TypeOK, FileType
  <2>4. FileKnows'
    BY <2>1, <2>2, <2>3 DEF FileKnows
  <2>5. CASE Goto(p, "reboot") /\ UNCHANGED <<cmd, loc, ver>>
    <3>1. pc' = [pc EXCEPT ![p] = "reboot"] /\ UNCHANGED ver
      BY <2>5 DEF Goto
    <3>2. Knows(p)'
      BY <1>t, <3>1 DEF Knows, InstallLabels
    <3> QED
      BY <1>2, <1>m, <1>t, <2>4, <3>1, <3>2, OneKnows DEF UInv, MarkedVersionRan
  <2>6. CASE Return(p)
    BY <1>2, <1>m, <2>4, <2>6, ReturnKnows DEF UInv, MarkedVersionRan
  <2> QED
    BY <2>1, <2>5, <2>6
<1> QED
  BY <1>4, <1>5, <1>6, <1>7, <1>8

(* The steps of mark-good, rollback and persist_last_event.                 *)
LEMMA OtherKnows ==
  ASSUME Undisturbed, IInv, SInv, UInv, NEW p \in Procs,
         \/ ErrLoad(p) \/ ErrSave(p) \/ Reboot(p) \/ RebootFails(p)
         \/ MarkGoodLoad(p) \/ MarkGoodRauc(p) \/ MarkGoodSave(p) \/ PersistFloor(p)
         \/ RollbackMark(p) \/ RollbackLoad(p) \/ RollbackSave(p)
  PROVE  UInv'
<1>1. mode = "up" /\ pc[p] \notin Outside \cup InstallLabels
  BY DEF ErrLoad, ErrSave, Reboot, RebootFails, MarkGoodLoad, MarkGoodRauc, MarkGoodSave,
         PersistFloor, RollbackMark, RollbackLoad, RollbackSave, At, Outside, InstallLabels
<1>2. \A q \in Procs : q # p => pc[q] \in Outside
  BY <1>1 DEF SInv, Exclusive
<1>3. ~Fault
  BY NoFault
<1>4. pc["operator"] \notin InstallLabels
  BY <1>1, <1>2 DEF Outside, InstallLabels
<1>s. /\ SaveState(p) => Puts(loc[p])
      /\ SaveMirror(p) => file' = [file EXCEPT !.mirror = loc[p].floor]
      /\ SaveFails(p) => Fault /\ UNCHANGED file
  BY <1>1, SavesAlone DEF Outside, InstallLabels
<1>t. /\ pc \in [Procs -> Labels] /\ ver \in [Procs -> Versions \cup {0}]
      /\ loc \in [Procs -> OtaState \cup {NoState}] /\ file \in FileType
      /\ pc[p] \in HoldsState => loc[p] \in OtaState
  BY DEF IInv, TypeOK, Carries
<1>i. UNCHANGED <<image, booted>> /\ (marked' = marked \/ MarkGoodRauc(p))
  BY DEF ErrLoad, ErrSave, Reboot, RebootFails, MarkGoodLoad, MarkGoodRauc, MarkGoodSave,
         PersistFloor, RollbackMark, RollbackLoad, RollbackSave, machine
<1>l. Loadable => Loaded \in OtaState /\ InSlot(Loaded, image)
  BY <1>1, <1>4, LoadedInSlot DEF UInv
<1>o. \A l \in Labels : pc' = [pc EXCEPT ![p] = l] =>
        pc'[p] = l /\ \A q \in Procs : q # p => pc'[q] = pc[q]
  BY <1>t
<1>f. FileKnows /\ MarkedVersionRan
  BY DEF UInv
<1>5. CASE ErrLoad(p)
  <2>1. UNCHANGED <<file, marked>>
    BY <1>5 DEF ErrLoad, machine
  <2>2. FileKnows' /\ MarkedVersionRan'
    BY <1>4, <1>f, <1>i, <2>1 DEF FileKnows, MarkedVersionRan
  <2>3. CASE ReturnFailed(p)
    BY <1>2, <2>2, <2>3, ReturnKnows DEF UInv
  <2>4. CASE Loadable /\ loc' = [loc EXCEPT ![p] = Loaded] /\ Goto(p, "err_save") /\ UNCHANGED ver
    <3>1. loc'[p] = Loaded /\ pc'[p] = "err_save"
      BY <1>t, <2>4 DEF Goto
    <3>2. Knows(p)'
      BY <1>i, <1>l, <2>4, <3>1 DEF Knows, InstallLabels
    <3>3. \A q \in Procs : q # p => pc'[q] = pc[q] /\ ver'[q] = ver[q]
      BY <1>t, <2>4 DEF Goto
    <3> QED
      BY <1>2, <2>2, <3>2, <3>3, OneKnows DEF UInv
  <2> QED
    BY <1>3, <1>5, <2>3, <2>4 DEF ErrLoad
<1>6. CASE ErrSave(p)
  <2>1. pc[p] = "err_save" /\ ReturnFailed(p) /\ Puts(loc[p]) /\ UNCHANGED marked
    BY <1>3, <1>6, <1>s DEF ErrSave, At, machine
  <2>2. file'.state = loc[p] /\ InSlot(loc[p], image)
    BY <1>t, <2>1 DEF Puts, FileType, UInv, Knows
  <2>3. FileKnows' /\ MarkedVersionRan'
    BY <1>f, <1>i, <2>1, <2>2 DEF FileKnows, MarkedVersionRan
  <2> QED
    BY <1>2, <2>1, <2>3, ReturnKnows DEF UInv
<1>7. CASE Reboot(p)
  <2>1. /\ pc' = [q \in Procs |-> "down"] /\ ver' = [q \in Procs |-> 0]
        /\ UNCHANGED <<file, marked>>
    BY <1>7 DEF Reboot, PowerOff
  <2>2. \A q \in Procs : Knows(q)'
    BY <2>1 DEF Knows, InstallLabels
  <2>3. FileKnows' /\ MarkedVersionRan'
    BY <1>4, <1>f, <1>i, <2>1 DEF FileKnows, MarkedVersionRan
  <2> QED
    BY <2>2, <2>3 DEF UInv
<1>8. CASE RebootFails(p)
  BY <1>3, <1>8 DEF RebootFails
<1>9. CASE MarkGoodLoad(p)
  <2>0. pc[p] = "mg_load"
    BY <1>9 DEF MarkGoodLoad, At
  <2>1. UNCHANGED <<file, marked>>
    BY <1>9 DEF MarkGoodLoad, machine
  <2>2. FileKnows' /\ MarkedVersionRan'
    BY <1>4, <1>f, <1>i, <2>1 DEF FileKnows, MarkedVersionRan
  <2>3. CASE Bail(p)
    BY <1>2, <2>2, <2>3, ReturnKnows DEF UInv
  <2>4. CASE ~Bail(p)
    <3>1. /\ Loadable /\ MayMarkGood(p, Loaded)
          /\ loc' = [loc EXCEPT ![p] = Loaded]
          /\ ver' = [ver EXCEPT ![p] = VersionToMark(p, Loaded)]
          /\ pc' = [pc EXCEPT ![p] = "mg_rauc"]
      BY <1>9, <2>4 DEF MarkGoodLoad, Goto
    <3>2. p = "gate" /\ ver[p] = 0
      BY <2>0 DEF UInv, Knows
    <3>3. VersionToMark(p, Loaded) = Loaded.pending /\ Loaded.pending # 0
      BY <3>1, <3>2 DEF MayMarkGood, VersionToMark
    <3>4. Loaded.slot \in Slots /\ image[Loaded.slot] = Loaded.pending
      BY <1>l, <3>1, <3>3 DEF InSlot
    <3>5. Loaded.slot = booted
      BY <3>1, <3>4 DEF MayMarkGood
    <3>6. pc'[p] = "mg_rauc" /\ ver'[p] = image[booted]
      BY <1>t, <3>1, <3>3, <3>4, <3>5
    <3>7. Knows(p)'
      BY <1>i, <3>2, <3>6 DEF Knows, InstallLabels
    <3>8. \A q \in Procs : q # p => pc'[q] = pc[q] /\ ver'[q] = ver[q]
      BY <1>t, <3>1
    <3> QED
      BY <1>2, <2>2, <3>7, <3>8, OneKnows DEF UInv
  <2> QED
    BY <2>3, <2>4
<1>10. CASE MarkGoodRauc(p)
  <2>1. /\ pc[p] = "mg_rauc" /\ marked' = marked \cup {<<ver[p], image[booted]>>}
        /\ loc' = [loc EXCEPT ![p] =
                     [current |-> ver[p], floor |-> Max2(ver[p], @.floor),
                      pending |-> 0, slot |-> "none"]]
        /\ pc' = [pc EXCEPT ![p] = "mg_save"] /\ UNCHANGED <<ver, file>>
    BY <1>3, <1>10 DEF MarkGoodRauc, At, Goto
  <2>2. p = "gate" /\ ver[p] = image[booted]
    BY <2>1 DEF UInv, Knows
  <2>3. MarkedVersionRan'
    BY <1>f, <2>1, <2>2 DEF MarkedVersionRan
  <2>4. pc'[p] = "mg_save" /\ loc'[p].pending = 0
    BY <1>t, <2>1
  <2>5. Knows(p)'
    BY <2>2, <2>4 DEF Knows, InstallLabels
  <2>6. \A q \in Procs : q # p => pc'[q] = pc[q] /\ ver'[q] = ver[q]
    BY <1>t, <2>1
  <2>7. FileKnows'
    BY <1>4, <1>f, <1>i, <2>1 DEF FileKnows
  <2> QED
    BY <1>2, <2>3, <2>5, <2>6, <2>7, OneKnows DEF UInv
<1>11. CASE MarkGoodSave(p)
  <2>1. /\ pc[p] = "mg_save" /\ Puts(loc[p]) /\ UNCHANGED <<ver, marked>>
        /\ pc' = [pc EXCEPT ![p] = "mg_floor"]
    BY <1>3, <1>11, <1>s DEF MarkGoodSave, At, Goto, machine
  <2>2. file'.state = loc[p] /\ loc[p].pending = 0 /\ p = "gate"
    BY <1>t, <2>1 DEF Puts, FileType, UInv, Knows
  <2>3. FileKnows' /\ MarkedVersionRan'
    BY <1>f, <2>1, <2>2 DEF FileKnows, MarkedVersionRan, InSlot
  <2>4. pc'[p] = "mg_floor" /\ \A q \in Procs : q # p => pc'[q] = pc[q] /\ ver'[q] = ver[q]
    BY <1>t, <2>1
  <2>5. Knows(p)'
    BY <2>2, <2>4 DEF Knows, InstallLabels
  <2> QED
    BY <1>2, <2>3, <2>4, <2>5, OneKnows DEF UInv
<1>12. CASE PersistFloor(p)
  <2>1. file' = [file EXCEPT !.mirror = loc[p].floor] /\ Return(p) /\ UNCHANGED marked
    BY <1>3, <1>12, <1>s DEF PersistFloor, machine
  <2>2. file'.state = file.state
    BY <1>t, <2>1 DEF FileType
  <2>3. FileKnows' /\ MarkedVersionRan'
    BY <1>4, <1>f, <1>i, <2>1, <2>2 DEF FileKnows, MarkedVersionRan
  <2> QED
    BY <1>2, <2>1, <2>3, ReturnKnows DEF UInv
<1>13. CASE RollbackMark(p)
  <2>1. pc' = [pc EXCEPT ![p] = "rb_load"] /\ UNCHANGED <<file, ver, marked>>
    BY <1>3, <1>13 DEF RollbackMark, Goto
  <2>2. FileKnows' /\ MarkedVersionRan'
    BY <1>4, <1>f, <1>i, <2>1 DEF FileKnows, MarkedVersionRan
  <2>3. pc'[p] = "rb_load" /\ \A q \in Procs : q # p => pc'[q] = pc[q] /\ ver'[q] = ver[q]
    BY <1>t, <2>1
  <2>4. Knows(p)'
    BY <2>3 DEF Knows, InstallLabels
  <2> QED
    BY <1>2, <2>2, <2>3, <2>4, OneKnows DEF UInv
<1>14. CASE RollbackLoad(p)
  <2>1. UNCHANGED <<file, marked>>
    BY <1>14 DEF RollbackLoad, machine
  <2>2. FileKnows' /\ MarkedVersionRan'
    BY <1>4, <1>f, <1>i, <2>1 DEF FileKnows, MarkedVersionRan
  <2>3. CASE Bail(p)
    BY <1>2, <2>2, <2>3, ReturnKnows DEF UInv
  <2>4. CASE ~Bail(p)
    <3>1. /\ Loadable
          /\ loc' = [loc EXCEPT ![p] = [Loaded EXCEPT !.pending = 0, !.slot = "none"]]
          /\ pc' = [pc EXCEPT ![p] = "rb_save"] /\ UNCHANGED ver
      BY <1>14, <2>4 DEF RollbackLoad, Goto
    <3>2. loc'[p].pending = 0 /\ pc'[p] = "rb_save"
      BY <1>t, <1>l, <3>1 DEF OtaState
    <3>3. Knows(p)'
      BY <3>2 DEF Knows, InstallLabels
    <3>4. \A q \in Procs : q # p => pc'[q] = pc[q] /\ ver'[q] = ver[q]
      BY <1>t, <3>1
    <3> QED
      BY <1>2, <2>2, <3>3, <3>4, OneKnows DEF UInv
  <2> QED
    BY <2>3, <2>4
<1>15. CASE RollbackSave(p)
  <2>1. /\ pc[p] = "rb_save" /\ Puts(loc[p]) /\ UNCHANGED marked
        /\ (Goto(p, "reboot") /\ UNCHANGED ver) \/ Return(p)
    BY <1>3, <1>15, <1>s DEF RollbackSave, At, machine
  <2>2. file'.state = loc[p] /\ loc[p].pending = 0
    BY <1>t, <2>1 DEF Puts, FileType, UInv, Knows
  <2>3. FileKnows' /\ MarkedVersionRan'
    BY <1>f, <2>1, <2>2 DEF FileKnows, MarkedVersionRan, InSlot
  <2>4. CASE Return(p)
    BY <1>2, <2>3, <2>4, ReturnKnows DEF UInv
  <2>5. CASE Goto(p, "reboot") /\ UNCHANGED ver
    <3>1. pc'[p] = "reboot" /\ \A q \in Procs : q # p => pc'[q] = pc[q] /\ ver'[q] = ver[q]
      BY <1>t, <2>5 DEF Goto
    <3>2. Knows(p)'
      BY <3>1 DEF Knows, InstallLabels
    <3> QED
      BY <1>2, <2>3, <3>1, <3>2, OneKnows DEF UInv
  <2> QED
    BY <2>1, <2>4, <2>5
<1> QED
  BY <1>5, <1>6, <1>7, <1>8, <1>9, <1>10, <1>11, <1>12, <1>13, <1>14, <1>15

(* Commands are issued, the gate starts, the machine boots and stops.       *)
LEMMA AroundKnows ==
  ASSUME Undisturbed, IInv, SInv, UInv,
         \/ Operator \/ Gate \/ Chooser
         \/ PowerCycle \/ PlannedReboot \/ Writeback \/ PowerLoss \/ DataReset
  PROVE  UInv'
<1>3. ~Fault
  BY NoFault
<1>t. pc \in [Procs -> Labels] /\ ver \in [Procs -> Versions \cup {0}]
  BY DEF IInv, TypeOK
<1>f. FileKnows /\ MarkedVersionRan /\ \A q \in Procs : Knows(q)
  BY DEF UInv
<1>1. CASE Operator
  <2>1. /\ pc["operator"] = "idle" /\ \A q \in Procs \ {"operator"} : pc[q] \in {"gate", "idle", "exit"}
        /\ UNCHANGED <<image, file, marked, booted>>
    BY <1>1 DEF Operator, Install, MarkGood, Rollback, Issue, At, MayEnter, Undisturbed, machine
  <2>2. PICK l \in {"in_rauc", "err_load", "rb_mark"} : pc' = [pc EXCEPT !["operator"] = l]
    BY <1>1 DEF Operator, Install, MarkGood, Rollback, Issue, Goto, Undisturbed
  <2>3. \A q \in Procs : q # "operator" => /\ pc[q] \in Outside /\ pc'[q] = pc[q]
                                           /\ ver'[q] = ver[q]
    <3>1. ver'["gate"] = ver["gate"]
      BY <1>1, <1>t DEF Operator, Install, MarkGood, Rollback
    <3> QED
      BY <1>t, <2>1, <2>2, <3>1 DEF Outside
  <2>4. pc'["operator"] = l
    BY <1>t, <2>2
  <2>5. Knows("operator")'
    BY <2>4 DEF Knows, InstallLabels
  <2>6. FileKnows' /\ MarkedVersionRan'
    BY <1>f, <2>1, <2>4 DEF FileKnows, MarkedVersionRan, InstallLabels
  <2> QED
    BY <2>3, <2>5, <2>6, OneKnows DEF UInv
<1>2. CASE Gate
  <2>1. /\ pc["gate"] = "gate" /\ pc["operator"] \in Outside
        /\ UNCHANGED <<image, file, marked, ver>>
        /\ \E l \in {"mg_load", "rb_mark"} : pc' = [pc EXCEPT !["gate"] = l]
    BY <1>2, <1>3 DEF Gate, HealthGatePasses, HealthGateFails, GateAborts, At, MayEnter,
                      Goto, Undisturbed, machine, Outside
  <2>2. pc'["gate"] \in {"mg_load", "rb_mark"} /\ pc'["operator"] = pc["operator"]
    BY <1>t, <2>1
  <2>3. Knows("gate")'
    BY <1>f, <2>1, <2>2 DEF Knows, InstallLabels
  <2>4. FileKnows' /\ MarkedVersionRan'
    BY <1>f, <2>1, <2>2 DEF FileKnows, MarkedVersionRan
  <2>5. \A q \in Procs : q # "gate" => pc[q] \in Outside /\ pc'[q] = pc[q] /\ ver'[q] = ver[q]
    BY <2>1, <2>2
  <2> QED
    BY <2>3, <2>4, <2>5, OneKnows DEF UInv
<1>4. CASE Chooser
  <2>1. mode # "up" /\ \A q \in Procs : pc[q] = "down"
    BY <1>4 DEF Chooser, BootUserspace, BootPanics, NoBootableSlot, SInv, Stopped
  <2>2. /\ \A q \in Procs : pc'[q] \in {"down", "gate", "idle"} /\ ver'[q] = ver[q]
        /\ UNCHANGED <<image, file, marked>>
    BY <1>4, <2>1 DEF Chooser, BootUserspace, BootPanics, NoBootableSlot, procVars
  <2>3. \A q \in Procs : Knows(q)'
    BY <1>f, <2>1, <2>2 DEF Knows, InstallLabels
  <2>4. FileKnows' /\ MarkedVersionRan'
    BY <1>f, <2>1, <2>2 DEF FileKnows, MarkedVersionRan, InstallLabels
  <2> QED
    BY <2>3, <2>4 DEF UInv
<1>5. CASE PowerCycle \/ Writeback
  <2>1. UNCHANGED <<env, image, file, booted, pc, loc, ver, marked>>
    BY <1>5 DEF PowerCycle, Writeback, machine, procVars
  <2>2. \A q \in Procs : Knows(q)'
    BY <1>f, <2>1 DEF Knows, Target
  <2>3. FileKnows' /\ MarkedVersionRan'
    BY <1>f, <2>1 DEF FileKnows, MarkedVersionRan
  <2> QED
    BY <2>2, <2>3 DEF UInv
<1>6. CASE PlannedReboot
  <2>1. /\ pc' = [q \in Procs |-> "down"] /\ ver' = [q \in Procs |-> 0]
        /\ UNCHANGED <<image, file, marked>> /\ pc["operator"] = "idle"
    BY <1>6 DEF PlannedReboot, PowerOff, At
  <2>2. \A q \in Procs : Knows(q)'
    BY <2>1 DEF Knows, InstallLabels
  <2>3. FileKnows' /\ MarkedVersionRan'
    BY <1>f, <2>1 DEF FileKnows, MarkedVersionRan, InstallLabels
  <2> QED
    BY <2>2, <2>3 DEF UInv
<1>7. CASE PowerLoss \/ DataReset
  BY <1>3, <1>7 DEF PowerLoss, DataReset
<1> QED
  BY <1>1, <1>2, <1>4, <1>5, <1>6, <1>7

(* UInv is an invariant of an undisturbed device.                           *)
THEOREM UpdateInvariance ==
  ASSUME Undisturbed
  PROVE  Spec => []UInv
<1>1. Init => UInv
  BY NoStateAssumption DEF Init, UInv, Knows, FileKnows, MarkedVersionRan, InstallLabels
<1>2. IInv /\ SInv /\ UInv /\ [Next]_vars => UInv'
  <2> SUFFICES ASSUME IInv, SInv, UInv, [Next]_vars PROVE UInv'
    OBVIOUS
  <2>1. CASE UNCHANGED vars
    <3>1. \A q \in Procs : Knows(q)'
      BY <2>1 DEF vars, UInv, Knows, Target
    <3>2. FileKnows' /\ MarkedVersionRan'
      BY <2>1 DEF vars, UInv, FileKnows, MarkedVersionRan
    <3> QED
      BY <3>1, <3>2 DEF UInv
  <2>2. CASE Next
    <3>1. \A p \in Procs : ~RenameFails(p)
      BY SavesAlone DEF RenameFails, SaveLabels, Outside
    <3> QED
      BY <2>2, <3>1, InstallKnows, OtherKnows, AroundKnows DEF Next, ToolStep
  <2> QED
    BY <2>1, <2>2
<1>3. Overlap = FALSE
  BY DEF Undisturbed
<1>4. Spec => []SInv
  BY <1>3, SerialInvariance
<1> QED
  BY <1>1, <1>2, <1>4, Invariance, PTL DEF Spec

(* On a device where nothing fails, commands do not overlap and the gate    *)
(* marks good, the version mark_good records as good is the one that runs,  *)
(* although it never looks at the running image, on both boot choosers.     *)
THEOREM MarkedVersionIsRunning ==
  ASSUME Undisturbed
  PROVE  Spec => []MarkedVersionRan
<1>1. UInv => MarkedVersionRan
  BY DEF UInv
<1> QED
  BY <1>1, UpdateInvariance, PTL

(* On such a device the update that state.json announces is in the slot it  *)
(* names whenever no install is under way.                                 *)
THEOREM AnnouncedIsInstalled ==
  ASSUME Undisturbed
  PROVE  Spec => []PendingIsInstalled
<1>1. UInv => PendingIsInstalled
  BY DEF UInv, FileKnows, InSlot, PendingIsInstalled
<1> QED
  BY <1>1, UpdateInvariance, PTL

----------------------------------------------------------------------------
(* A device on which commands do not overlap is an A/B updater.             *)

(* What process p is about to do is what an A/B updater may do: the slot it *)
(* writes is erased, the floor it saves is the one in the file, or, when it *)
(* marks good, a version that is not below it; on an undisturbed device     *)
(* that version runs.                                                      *)
Ready(p) ==
  /\ pc[p] = "in_write" => image[Target] = 0
  /\ pc[p] \in HoldsState \ {"mg_save"} => loc[p].floor = EffectiveFloor(file)
  /\ pc[p] = "mg_rauc" => ver[p] >= loc[p].floor
  /\ pc[p] = "mg_save" => loc[p].floor = ver[p] /\ ver[p] >= EffectiveFloor(file)
  /\ Undisturbed /\ pc[p] = "mg_save" => ver[p] = image[booted]

RInv == \A p \in Procs : Ready(p)

(* A step of the abstract updater, or none.                                 *)
ABStep == [AB!Next]_<<image, Running, Floor>>

(* A step that touches neither the slots, nor the files, nor what runs.     *)
LEMMA Stutters ==
  /\ UNCHANGED <<image, Running, Floor>> => ABStep
  /\ UNCHANGED <<mode, booted>> => UNCHANGED Running
  /\ UNCHANGED file => UNCHANGED Floor
<1>1. UNCHANGED <<mode, booted>> => UNCHANGED Running
  BY DEF Running
<1>2. UNCHANGED file => UNCHANGED Floor
  BY DEF Floor
<1> QED
  BY <1>1, <1>2 DEF ABStep

(* The floor that load_state finds in files f is a version.                 *)
LEMMA EffectiveFloorRange ==
  ASSUME NEW f \in FileType, f.state # Corrupt
  PROVE  EffectiveFloor(f) \in Versions
<1>1. /\ DefaultFloor \in Versions /\ TrustedFloor \in Versions \cup {0}
      /\ f.mirror \in Versions \cup {0}
      /\ f.state # NoState => f.state.floor \in Versions
  BY DefaultFloorAssumption, TrustedFloorAssumption DEF FileType, OtaState
<1> QED
  BY <1>1, MaxVersionAssumption DEF EffectiveFloor, Max2, Versions

(* The floor of a device that can load its state is that version.           *)
LEMMA FloorRange ==
  ASSUME IInv, file.state # Corrupt
  PROVE  Floor = EffectiveFloor(file) /\ Floor \in Versions
BY EffectiveFloorRange DEF Floor, IInv, TypeOK

(* The process that moves is ready again, and the other one is outside.     *)
LEMMA OneReady ==
  ASSUME IInv, NEW p \in Procs, NEW l \in Labels,
         \A q \in Procs : q # p => pc[q] \in Outside,
         pc' = [pc EXCEPT ![p] = l], Ready(p)'
  PROVE  RInv'
<1>1. \A q \in Procs : q # p => pc'[q] \in Outside
  BY DEF IInv, TypeOK
<1>2. \A q \in Procs : q # p => Ready(q)'
  BY <1>1 DEF Ready, Outside, HoldsState, InstallLabels
<1> QED
  BY <1>2 DEF RInv

(* A process at a label that holds no state has nothing to be ready for.    *)
LEMMA RestReady ==
  ASSUME IInv, NEW p \in Procs,
         NEW l \in Labels \ HoldsState,
         \A q \in Procs : q # p => pc[q] \in Outside,
         pc' = [pc EXCEPT ![p] = l]
  PROVE  RInv'
<1>1. pc'[p] = l
  BY DEF IInv, TypeOK
<1>2. Ready(p)'
  BY <1>1 DEF Ready, HoldsState, InstallLabels
<1> QED
  BY <1>2, OneReady

(* So has one that returns or bails out.                                    *)
LEMMA ReturnReady ==
  ASSUME IInv, NEW p \in Procs,
         \A q \in Procs : q # p => pc[q] \in Outside,
         Return(p) \/ ReturnFailed(p) \/ Bail(p)
  PROVE  RInv'
<1>1. PICK l \in {"exit", "idle", "rb_mark", "err_load"} :
        pc' = [pc EXCEPT ![p] = l]
  BY DEF Return, ReturnFailed, Bail, Goto, Finished
<1>2. l \in Labels \ HoldsState
  BY <1>1 DEF Labels, HoldsState, InstallLabels
<1> QED
  BY <1>1, <1>2, RestReady

(* Saving a state with the floor of the file leaves the floor alone.        *)
LEMMA SaveKeepsFloor ==
  ASSUME IInv, NEW s \in OtaState, file.state # Corrupt,
         s.floor = EffectiveFloor(file), Puts(s)
  PROVE  UNCHANGED Floor
<1>1. EffectiveFloor(file) \in Nat
  BY LoadedFloor
<1>2. s.floor >= EffectiveFloor(file)
  BY <1>1
<1>3. file'.state # Corrupt /\ EffectiveFloor(file') = s.floor
  BY <1>2, SavedFloor
<1> QED
  BY <1>3 DEF Floor

(* The steps of install: they erase the other slot, write it with a version *)
(* the policy has compared with the floor, and save the floor they loaded.  *)
LEMMA InstallRefines ==
  ASSUME IInv, SInv, RInv, NEW p \in Procs,
         \/ RaucInstallBegin(p) \/ RaucInstallEnd(p) \/ RaucInstallFails(p)
         \/ PendingSlot(p) \/ InstallSave(p)
  PROVE  RInv' /\ ABStep
<1>1. mode = "up" /\ pc[p] \in InstallLabels
  BY DEF RaucInstallBegin, RaucInstallEnd, RaucInstallFails, PendingSlot, InstallSave,
         At, InstallLabels
<1>2. \A q \in Procs : q # p => pc[q] \in Outside
  BY <1>1 DEF SInv, Exclusive, Outside, InstallLabels
<1>s. /\ SaveState(p) => Puts(loc[p])
      /\ SaveMirror(p) => file' = [file EXCEPT !.mirror = loc[p].floor]
      /\ SaveFails(p) => Fault /\ UNCHANGED file
  BY <1>1, SavesAlone DEF Outside, InstallLabels
<1>t. /\ pc \in [Procs -> Labels] /\ loc \in [Procs -> OtaState \cup {NoState}]
      /\ loc[p] \in OtaState /\ ver[p] \in Versions
      /\ image \in [Slots -> Versions \cup {0}] /\ booted \in Slots
      /\ Target \in Slots /\ Target # booted
  BY <1>1 DEF IInv, TypeOK, Carries, HoldsState, HoldsVersion, Target, Other
<1>h. /\ file.state # Corrupt /\ loc[p].floor = EffectiveFloor(file)
      /\ Floor = EffectiveFloor(file) /\ Floor \in Versions
  <2>1. file.state # Corrupt /\ loc[p].floor = EffectiveFloor(file)
    BY <1>1 DEF SInv, Fresh, RInv, Ready, HoldsState, InstallLabels
  <2> QED
    BY <2>1, FloorRange
<1>u. Running = booted /\ Running # "none" /\ UNCHANGED <<mode, booted>>
  BY <1>1, <1>t DEF Running, RaucInstallBegin, RaucInstallEnd, RaucInstallFails,
                    PendingSlot, InstallSave, machine
<1>r. UNCHANGED Running
  BY <1>u, Stutters
<1>3. CASE RaucInstallBegin(p)
  <2>1. /\ pc' = [pc EXCEPT ![p] = "in_write"] /\ UNCHANGED <<file, loc, ver>>
        /\ image' = [image EXCEPT ![Target] = 0]
    BY <1>3 DEF RaucInstallBegin, Goto
  <2>2. AB!Erase(Target)
    BY <1>t, <1>u, <1>r, <2>1, Stutters DEF AB!Erase, AB!Up
  <2>3. ABStep
    BY <1>t, <2>2 DEF ABStep, AB!Next
  <2>4. pc'[p] = "in_write" /\ image'[Target] = 0 /\ Target' = Target
    BY <1>t, <1>u, <2>1 DEF Target
  <2>5. Ready(p)'
    BY <1>h, <2>1, <2>4 DEF Ready, HoldsState
  <2> QED
    BY <1>2, <2>1, <2>3, <2>5, OneReady DEF Labels
<1>4. CASE RaucInstallEnd(p)
  <2>1. /\ pc[p] = "in_write" /\ pc' = [pc EXCEPT ![p] = "in_slot"]
        /\ UNCHANGED <<file, loc>> /\ image' = [image EXCEPT ![Target] = ver[p]]
    BY <1>4 DEF RaucInstallEnd, At, Goto
  <2>2. image[Target] = 0 /\ ver[p] >= Floor
    BY <1>h, <2>1 DEF RInv, Ready, SInv, Fresh
  <2>3. AB!Write(Target, ver[p])
    BY <1>t, <1>u, <1>r, <2>1, <2>2, Stutters DEF AB!Write, AB!Up
  <2>4. ABStep
    BY <1>t, <2>3 DEF ABStep, AB!Next
  <2>5. pc'[p] = "in_slot"
    BY <1>t, <2>1
  <2>6. Ready(p)'
    BY <1>h, <2>1, <2>5 DEF Ready
  <2> QED
    BY <1>2, <2>1, <2>4, <2>6, OneReady DEF Labels
<1>5. CASE RaucInstallFails(p)
  <2>1. UNCHANGED <<image, file>> /\ Bail(p)
    BY <1>5 DEF RaucInstallFails, machine
  <2> QED
    BY <1>2, <1>r, <2>1, Stutters, ReturnReady
<1>6. CASE PendingSlot(p)
  <2>1. UNCHANGED <<image, file>>
    BY <1>6 DEF PendingSlot, machine
  <2>2. ABStep
    BY <1>r, <2>1, Stutters
  <2>3. CASE Bail(p)
    BY <1>2, <2>2, <2>3, ReturnReady
  <2>4. CASE ~Bail(p)
    <3>1. /\ pc' = [pc EXCEPT ![p] = "in_save"]
          /\ loc'[p] = [loc[p] EXCEPT !.pending = ver[p], !.slot = NamedSlot]
      BY <1>6, <1>t, <2>4 DEF PendingSlot, Goto, OtaState
    <3>2. loc'[p].floor = loc[p].floor /\ pc'[p] = "in_save"
      BY <1>t, <3>1 DEF OtaState
    <3>3. Ready(p)'
      BY <1>h, <2>1, <3>2 DEF Ready
    <3> QED
      BY <1>2, <2>2, <3>1, <3>3, OneReady DEF Labels
  <2> QED
    BY <2>3, <2>4
<1>7. CASE InstallSave(p)
  <2>1. UNCHANGED image /\ (Puts(loc[p]) \/ UNCHANGED file)
    BY <1>7, <1>s DEF InstallSave, machine
  <2>2. UNCHANGED Floor
    BY <1>t, <1>h, <2>1, Stutters, SaveKeepsFloor
  <2>3. ABStep
    BY <1>r, <2>1, <2>2, Stutters
  <2>4. CASE Bail(p) \/ Return(p)
    BY <1>2, <2>3, <2>4, ReturnReady
  <2>5. CASE ~(Bail(p) \/ Return(p))
    <3>1. pc' = [pc EXCEPT ![p] = "reboot"]
      BY <1>7, <2>5 DEF InstallSave, Goto
    <3> QED
      BY <1>2, <2>3, <3>1, RestReady DEF Labels, HoldsState, InstallLabels
  <2> QED
    BY <2>4, <2>5
<1> QED
  BY <1>3, <1>4, <1>5, <1>6, <1>7

(* The steps of mark-good, rollback and persist_last_event: mark-good moves *)
(* the floor to the version it marks, when it saves; the mirror, and the    *)
(* other commands' saves, leave it where it is.                            *)
LEMMA OtherRefines ==
  ASSUME IInv, SInv, RInv, Undisturbed => UInv, NEW p \in Procs,
         \/ ErrLoad(p) \/ ErrSave(p) \/ Reboot(p) \/ RebootFails(p)
         \/ MarkGoodLoad(p) \/ MarkGoodRauc(p) \/ MarkGoodSave(p) \/ PersistFloor(p)
         \/ RollbackMark(p) \/ RollbackLoad(p) \/ RollbackSave(p)
  PROVE  RInv' /\ ABStep
<1>1. mode = "up" /\ pc[p] \notin Outside
  BY DEF ErrLoad, ErrSave, Reboot, RebootFails, MarkGoodLoad, MarkGoodRauc, MarkGoodSave,
         PersistFloor, RollbackMark, RollbackLoad, RollbackSave, At, Outside
<1>2. \A q \in Procs : q # p => pc[q] \in Outside
  BY <1>1 DEF SInv, Exclusive
<1>s. /\ SaveState(p) => Puts(loc[p])
      /\ SaveMirror(p) => file' = [file EXCEPT !.mirror = loc[p].floor]
      /\ SaveFails(p) => Fault /\ UNCHANGED file
  BY <1>1, SavesAlone
<1>t. /\ pc \in [Procs -> Labels] /\ ver \in [Procs -> Versions \cup {0}]
      /\ loc \in [Procs -> OtaState \cup {NoState}] /\ booted \in Slots
      /\ file \in FileType
  BY DEF IInv, TypeOK
<1>h. pc[p] \in HoldsState => /\ loc[p] \in OtaState /\ file.state # Corrupt
                              /\ Floor = EffectiveFloor(file) /\ Floor \in Versions
  BY FloorRange DEF IInv, Carries, SInv, Fresh
<1>k. pc[p] \in HoldsState \ {"mg_save"} => loc[p].floor = EffectiveFloor(file)
  BY DEF RInv, Ready
<1>i. UNCHANGED <<image, booted>>
  BY DEF ErrLoad, ErrSave, Reboot, RebootFails, MarkGoodLoad, MarkGoodRauc, MarkGoodSave,
         PersistFloor, RollbackMark, RollbackLoad, RollbackSave, machine
<1>r. mode' = mode => UNCHANGED Running
  BY <1>i, Stutters
<1>e. Loadable => Loaded \in OtaState /\ Loaded.floor = EffectiveFloor(file)
  BY <1>1, LoadedFloor, LoadedState DEF Loadable, IInv
<1>3. CASE ErrLoad(p) \/ MarkGoodLoad(p) \/ RollbackLoad(p)
  <2>1. UNCHANGED <<file, mode>>
    BY <1>3 DEF ErrLoad, MarkGoodLoad, RollbackLoad, machine
  <2>2. ABStep
    BY <1>i, <1>r, <2>1, Stutters
  <2>3. CASE ReturnFailed(p) \/ Bail(p)
    BY <1>2, <2>2, <2>3, ReturnReady
  <2>4. CASE ~(ReturnFailed(p) \/ Bail(p))
    <3>1. PICK l \in {"err_save", "mg_rauc", "rb_save"} : pc' = [pc EXCEPT ![p] = l]
      BY <1>3, <2>4 DEF ErrLoad, MarkGoodLoad, RollbackLoad, Goto
    <3>2. /\ Loadable
          /\ loc' = [loc EXCEPT ![p] = Loaded]
               \/ loc' = [loc EXCEPT ![p] = [Loaded EXCEPT !.pending = 0,
                                                           !.slot = "none"]]
      BY <1>3, <2>4 DEF ErrLoad, MarkGoodLoad, RollbackLoad
    <3>3. loc'[p].floor = EffectiveFloor(file) /\ pc'[p] = l /\ l \in Labels
      BY <1>t, <1>e, <3>1, <3>2 DEF OtaState, Labels
    <3>4. l = "mg_rauc" => ver'[p] >= loc'[p].floor
      <4>1. CASE MarkGoodLoad(p)
        <5>1. /\ MayMarkGood(p, Loaded) /\ loc' = [loc EXCEPT ![p] = Loaded]
              /\ ver' = [ver EXCEPT ![p] = VersionToMark(p, Loaded)]
          BY <2>4, <4>1 DEF MarkGoodLoad
        <5>2. ver'[p] = VersionToMark(p, Loaded) /\ loc'[p] = Loaded
          BY <1>t, <5>1
        <5> QED
          BY <5>1, <5>2 DEF MayMarkGood
      <4>2. CASE ~MarkGoodLoad(p)
        BY <1>3, <1>t, <2>4, <3>1, <4>2 DEF ErrLoad, RollbackLoad, Goto
      <4> QED
        BY <4>1, <4>2
    <3>5. Ready(p)'
      BY <2>1, <3>1, <3>3, <3>4 DEF Ready
    <3> QED
      BY <1>2, <2>2, <3>1, <3>3, <3>5, OneReady
  <2> QED
    BY <2>3, <2>4
<1>4. CASE ErrSave(p) \/ RollbackSave(p)
  <2>1. /\ pc[p] \in HoldsState \ {"mg_save"} /\ mode' = mode
        /\ Puts(loc[p]) \/ UNCHANGED file
    BY <1>4, <1>s DEF ErrSave, RollbackSave, At, HoldsState, machine
  <2>2. UNCHANGED Floor
    BY <1>h, <1>k, <2>1, Stutters, SaveKeepsFloor
  <2>3. ABStep
    BY <1>i, <1>r, <2>1, <2>2, Stutters
  <2>4. CASE Bail(p) \/ Return(p) \/ ReturnFailed(p)
    BY <1>2, <2>3, <2>4, ReturnReady
  <2>5. CASE ~(Bail(p) \/ Return(p) \/ ReturnFailed(p))
    <3>1. pc' = [pc EXCEPT ![p] = "reboot"]
      BY <1>4, <2>5 DEF ErrSave, RollbackSave, Goto
    <3> QED
      BY <1>2, <2>3, <3>1, RestReady DEF Labels, HoldsState, InstallLabels
  <2> QED
    BY <2>4, <2>5
<1>5. CASE Reboot(p)
  <2>1. /\ pc' = [q \in Procs |-> "down"] /\ mode' = "off" /\ UNCHANGED file
    BY <1>5 DEF Reboot, PowerOff
  <2>2. AB!Stop
    BY <1>i, <2>1, Stutters DEF AB!Stop, Running
  <2>3. ABStep
    BY <2>2 DEF ABStep, AB!Next
  <2>4. RInv'
    BY <2>1 DEF RInv, Ready, HoldsState, InstallLabels
  <2> QED
    BY <2>3, <2>4
<1>6. CASE RebootFails(p)
  <2>1. UNCHANGED <<mode, file>> /\ Bail(p)
    BY <1>6 DEF RebootFails, machine
  <2> QED
    BY <1>2, <1>i, <1>r, <2>1, Stutters, ReturnReady
<1>7. CASE MarkGoodRauc(p)
  <2>1. UNCHANGED <<mode, file>> /\ pc[p] = "mg_rauc"
    BY <1>7 DEF MarkGoodRauc, At
  <2>2. ABStep
    BY <1>i, <1>r, <2>1, Stutters
  <2>3. CASE Bail(p)
    BY <1>2, <2>2, <2>3, ReturnReady
  <2>4. CASE ~Bail(p)
    <3>1. /\ pc' = [pc EXCEPT ![p] = "mg_save"] /\ UNCHANGED ver
          /\ loc'[p].floor = Max2(ver[p], loc[p].floor)
      BY <1>7, <1>t, <2>4 DEF MarkGoodRauc, Goto
    <3>2. /\ ver[p] \in Nat /\ EffectiveFloor(file) \in Nat
          /\ loc[p].floor = EffectiveFloor(file) /\ ver[p] >= loc[p].floor
      BY <1>h, <1>k, <2>1, MaxVersionAssumption
      DEF IInv, Carries, RInv, Ready, HoldsState, HoldsVersion, Versions
    <3>3. loc'[p].floor = ver[p]
      BY <3>1, <3>2 DEF Max2
    <3>4. Undisturbed => ver[p] = image[booted]
      BY <2>1 DEF UInv, Knows
    <3>5. pc'[p] = "mg_save"
      BY <1>t, <3>1
    <3>6. Ready(p)'
      BY <1>i, <2>1, <3>1, <3>2, <3>3, <3>4, <3>5 DEF Ready
    <3> QED
      BY <1>2, <2>2, <3>1, <3>6, OneReady DEF Labels
  <2> QED
    BY <2>3, <2>4
<1>8. CASE MarkGoodSave(p)
  <2>1. pc[p] = "mg_save" /\ mode' = mode
    BY <1>8 DEF MarkGoodSave, At, machine
  <2>2. CASE Bail(p) /\ UNCHANGED file
    BY <1>2, <1>i, <1>r, <2>1, <2>2, Stutters, ReturnReady
  <2>3. CASE ~(Bail(p) /\ UNCHANGED file)
    <3>1. /\ Puts(loc[p]) /\ pc' = [pc EXCEPT ![p] = "mg_floor"]
          /\ UNCHANGED <<loc, ver>>
      BY <1>8, <2>3, <1>s DEF MarkGoodSave, Goto
    <3>2. /\ loc[p].floor = ver[p] /\ ver[p] >= EffectiveFloor(file)
          /\ ver[p] \in Versions
          /\ loc[p] \in OtaState /\ file.state # Corrupt /\ Floor = EffectiveFloor(file)
      BY <1>h, <2>1 DEF RInv, Ready, IInv, Carries, HoldsState, HoldsVersion
    <3>3. file'.state # Corrupt /\ EffectiveFloor(file') = ver[p]
      BY <3>1, <3>2, SavedFloor
    <3>4. Floor' = ver[p]
      BY <3>3 DEF Floor
    <3>5. Running = booted /\ Running # "none"
      BY <1>1, <1>t DEF Running
    <3>6. ver[p] = image[booted] \/ ~Undisturbed
      BY <2>1 DEF RInv, Ready
    <3>7. AB!Commit(ver[p])
      BY <1>i, <1>r, <2>1, <3>2, <3>4, <3>5, <3>6 DEF AB!Commit, AB!Up
    <3>8. ABStep
      BY <3>2, <3>7 DEF ABStep, AB!Next
    <3>9. pc'[p] = "mg_floor"
      BY <1>t, <3>1
    <3>10. Ready(p)'
      BY <3>1, <3>2, <3>3, <3>9 DEF Ready
    <3> QED
      BY <1>2, <3>1, <3>8, <3>10, OneReady DEF Labels
  <2> QED
    BY <2>2, <2>3
<1>9. CASE PersistFloor(p)
  <2>1. mode' = mode /\ file.state # NoState /\ (Return(p) \/ Bail(p))
    BY <1>9 DEF PersistFloor, machine, At, SInv, Fresh
  <2>2. file'.state = file.state
    BY <1>9, <1>t, <1>s DEF PersistFloor, FileType
  <2>3. UNCHANGED Floor
    BY <2>1, <2>2 DEF Floor, EffectiveFloor
  <2> QED
    BY <1>2, <1>i, <1>r, <2>1, <2>3, Stutters, ReturnReady
<1>10. CASE RollbackMark(p)
  <2>1. UNCHANGED <<mode, file>>
    BY <1>10 DEF RollbackMark
  <2>2. ABStep
    BY <1>i, <1>r, <2>1, Stutters
  <2>3. CASE Bail(p)
    BY <1>2, <2>2, <2>3, ReturnReady
  <2>4. CASE ~Bail(p)
    <3>1. pc' = [pc EXCEPT ![p] = "rb_load"]
      BY <1>10, <2>4 DEF RollbackMark, Goto
    <3> QED
      BY <1>2, <2>2, <3>1, RestReady DEF Labels, HoldsState, InstallLabels
  <2> QED
    BY <2>3, <2>4
<1> QED
  BY <1>3, <1>4, <1>5, <1>6, <1>7, <1>8, <1>9, <1>10

(* Commands are issued, the gate starts, the machine boots and stops: only  *)
(* a power cut or a reset of /data, both of them faults, moves the floor.   *)
LEMMA AroundRefines ==
  ASSUME Overlap = FALSE, IInv, SInv, RInv,
         \/ Operator \/ Gate \/ Chooser
         \/ PowerCycle \/ PlannedReboot \/ Writeback \/ PowerLoss \/ DataReset
  PROVE  RInv' /\ ABStep
<1>t. /\ pc \in [Procs -> Labels] /\ loc \in [Procs -> OtaState \cup {NoState}]
      /\ ver \in [Procs -> Versions \cup {0}] /\ file \in FileType
  BY DEF IInv, TypeOK
<1>m. ASSUME NEW p \in Procs, MayEnter(p)
      PROVE  \A q \in Procs : q # p => pc[q] \in Outside
  BY <1>m DEF MayEnter, Outside
<1>d. ASSUME \A q \in Procs : pc'[q] \in Outside
      PROVE  RInv'
  BY <1>d DEF RInv, Ready, Outside, HoldsState, InstallLabels
<1>1. CASE Operator \/ Gate
  <2>1. UNCHANGED <<image, mode, booted, file>>
    BY <1>1 DEF Operator, Install, MarkGood, Rollback, Gate, HealthGatePasses,
                HealthGateFails, GateAborts, machine
  <2>2. ABStep
    BY <2>1, Stutters
  <2>3. ASSUME NEW m \in Manifests, Install(m) PROVE RInv'
    <3>1. \A q \in Procs : q # "operator" => pc[q] \in Outside
      BY <2>3, <1>m DEF Install, Issue
    <3>2. CASE Loadable /\ PolicyAccepts(m, Loaded)
      <4>1. /\ pc' = [pc EXCEPT !["operator"] = "in_rauc"]
            /\ loc'["operator"] = Loaded /\ pc'["operator"] = "in_rauc"
        BY <2>3, <3>2, <1>t DEF Install, Goto
      <4>2. Loaded.floor = EffectiveFloor(file)
        BY <3>2, LoadedFloor DEF Loadable
      <4>3. Ready("operator")'
        BY <2>1, <4>1, <4>2 DEF Ready
      <4> QED
        BY <3>1, <4>1, <4>3, OneReady DEF Labels
    <3>3. CASE ~(Loadable /\ PolicyAccepts(m, Loaded))
      <4>1. pc' = [pc EXCEPT !["operator"] = "err_load"]
        BY <2>3, <3>3 DEF Install, Goto
      <4> QED
        BY <3>1, <4>1, RestReady DEF Labels, HoldsState, InstallLabels
    <3> QED
      BY <3>2, <3>3
  <2>4. CASE (\E v \in Versions \cup {0} : MarkGood(v)) \/ Rollback
    <3>1. PICK l \in {"mg_load", "rb_mark"} : pc' = [pc EXCEPT !["operator"] = l]
      BY <2>4 DEF MarkGood, Rollback, Goto
    <3>2. \A q \in Procs : q # "operator" => pc[q] \in Outside
      BY <2>4, <1>m DEF MarkGood, Rollback, Issue
    <3>3. l \in Labels \ HoldsState
      BY <3>1 DEF Labels, HoldsState, InstallLabels
    <3> QED
      BY <3>1, <3>2, <3>3, <2>2, RestReady
  <2>5. CASE HealthGatePasses \/ HealthGateFails
    <3>1. PICK l \in {"mg_load", "rb_mark"} : pc' = [pc EXCEPT !["gate"] = l]
      BY <2>5 DEF HealthGatePasses, HealthGateFails, Goto
    <3>2. \A q \in Procs : q # "gate" => pc[q] \in Outside
      BY <2>5, <1>m DEF HealthGatePasses, HealthGateFails
    <3>3. l \in Labels \ HoldsState
      BY <3>1 DEF Labels, HoldsState, InstallLabels
    <3> QED
      BY <3>1, <3>2, <3>3, <2>2, RestReady
  <2>6. CASE GateAborts
    <3>1. /\ UNCHANGED <<image, booted, file, loc, ver>>
          /\ \A q \in Procs : pc'[q] = IF q = "gate" THEN "exit" ELSE pc[q]
      BY <2>6, <1>t DEF GateAborts, Goto
    <3>2. \A q \in Procs : Ready(q)'
      BY <3>1 DEF RInv, Ready, Target, HoldsState, InstallLabels
    <3> QED
      BY <2>2, <3>2 DEF RInv
  <2> QED
    BY <1>1, <2>2, <2>3, <2>4, <2>5, <2>6 DEF Operator, Gate
<1>2. ASSUME NEW s \in Slots, BootUserspace(s)
      PROVE  RInv' /\ ABStep
  <2>1. /\ mode = "off" /\ mode' = "up" /\ booted' = s /\ image[s] # 0
        /\ UNCHANGED <<image, file>>
    BY <1>2 DEF BootUserspace, Boots
  <2>2. AB!Boot(s)
    BY <2>1, Stutters DEF AB!Boot, AB!Up, Running
  <2>3. ABStep
    BY <2>2 DEF ABStep, AB!Next
  <2>4. RInv'
    BY <1>2, <1>d DEF BootUserspace, Outside
  <2> QED
    BY <2>3, <2>4
<1>3. CASE (\E s \in Slots : BootPanics(s)) \/ NoBootableSlot \/ PowerCycle
  <2>1. /\ mode # "up" /\ mode' # "up" /\ UNCHANGED <<image, file, pc>>
    BY <1>3 DEF BootPanics, NoBootableSlot, PowerCycle, procVars
  <2>2. ABStep
    BY <2>1, Stutters DEF Running
  <2>3. \A q \in Procs : pc[q] = "down"
    BY <2>1 DEF SInv, Stopped
  <2> QED
    BY <1>d, <2>1, <2>2, <2>3 DEF Outside
<1>4. CASE PlannedReboot
  <2>1. /\ pc' = [q \in Procs |-> "down"] /\ mode' = "off" /\ UNCHANGED <<image, file>>
    BY <1>4 DEF PlannedReboot, PowerOff
  <2>2. AB!Stop
    BY <2>1, Stutters DEF AB!Stop, Running
  <2>3. ABStep
    BY <2>2 DEF ABStep, AB!Next
  <2> QED
    BY <1>d, <2>1, <2>3 DEF Outside
<1>5. CASE Writeback
  <2>1. UNCHANGED <<image, file, mode, booted, pc, loc, ver>>
    BY <1>5 DEF Writeback, machine, procVars
  <2>2. \A q \in Procs : Ready(q)'
    BY <2>1 DEF RInv, Ready, Target
  <2> QED
    BY <2>1, <2>2, Stutters DEF RInv
<1>6. CASE PowerLoss \/ DataReset
  <2>1. ~Undisturbed
    BY <1>6, NoFault DEF PowerLoss, DataReset
  <2>2. mode' # "up" /\ UNCHANGED image /\ \A q \in Procs : pc'[q] = "down"
    BY <1>6 DEF PowerLoss, PowerOff, DataReset, machine, procVars, SInv, Stopped
  <2>3. IInv'
    BY <1>6, MachineIInv
  <2>4. Floor' \in Versions \cup {MaxVersion + 1}
    <3>1. file' \in FileType
      BY <2>3 DEF IInv, TypeOK
    <3>2. file'.state # Corrupt => EffectiveFloor(file') \in Versions
      BY <3>1, EffectiveFloorRange
    <3> QED
      BY <3>2 DEF Floor
  <2>5. AB!LoseFloor
    BY <2>1, <2>2, <2>4 DEF AB!LoseFloor, Running
  <2>6. ABStep
    BY <2>5 DEF ABStep, AB!Next
  <2> QED
    BY <1>d, <2>2, <2>6 DEF Outside
<1> QED
  BY <1>1, <1>2, <1>3, <1>4, <1>5, <1>6 DEF Chooser

(* A device ships as an A/B updater does: one slot holds an image, nothing  *)
(* runs, and the floor is a version.                                       *)
LEMMA InitRefines == Init => RInv /\ AB!Init
<1> SUFFICES ASSUME Init PROVE RInv /\ AB!Init
  OBVIOUS
<1>1. RInv
  BY DEF Init, RInv, Ready, HoldsState, InstallLabels
<1>2. IInv /\ file.state # Corrupt
  BY InitIInv, NoStateAssumption DEF Init
<1>3. Floor \in Versions
  BY <1>2, FloorRange
<1>4. Running = "none"
  BY DEF Init, Running
<1>5. \E s \in Slots, v \in Versions : image = [t \in Slots |-> IF t = s THEN v ELSE 0]
  <2>1. image = [t \in Slots |-> IF t = "A" THEN FactoryVersion ELSE 0]
    BY DEF Init
  <2> QED
    BY <2>1, FactoryAssumption
<1> QED
  BY <1>1, <1>3, <1>4, <1>5 DEF AB!Init

(* Every step of a device on which commands do not overlap.                 *)
LEMMA StepRefines ==
  ASSUME Overlap = FALSE, IInv, SInv, RInv, Undisturbed => UInv, [Next]_vars
  PROVE  RInv' /\ ABStep
<1>1. CASE UNCHANGED vars
  <2>1. \A q \in Procs : Ready(q)'
    BY <1>1 DEF vars, RInv, Ready, Target
  <2>2. UNCHANGED <<image, mode, booted, file>>
    BY <1>1 DEF vars
  <2> QED
    BY <2>1, <2>2, Stutters DEF RInv
<1>2. CASE Next
  <2>1. \A p \in Procs : ~RenameFails(p)
    BY SavesAlone DEF RenameFails, SaveLabels, Outside
  <2> QED
    BY <1>2, <2>1, InstallRefines, OtherRefines, AroundRefines DEF Next, ToolStep
<1> QED
  BY <1>1, <1>2

(* A device on which commands do not overlap, faults and power cuts         *)
(* included, implements the A/B updater of module ABUpdate: every step of   *)
(* the tool, the gate, the boot choosers and the machine is a step of it,   *)
(* or none.                                                                *)
THEOREM ImplementsAB ==
  ASSUME Overlap = FALSE
  PROVE  Spec => ImplementsABUpdate
<1>1. CASE Undisturbed
  <2>1. IInv /\ SInv /\ UInv /\ RInv /\ [Next]_vars
          => RInv' /\ [AB!Next]_<<image, Running, Floor>>
    BY StepRefines DEF ABStep
  <2>2. Spec => []UInv
    BY <1>1, UpdateInvariance
  <2> QED
    BY <2>1, <2>2, InitRefines, Invariance, SerialInvariance, PTL
    DEF Spec, ImplementsABUpdate, AB!Spec
<1>2. CASE ~Undisturbed
  <2>1. IInv /\ SInv /\ RInv /\ [Next]_vars
          => RInv' /\ [AB!Next]_<<image, Running, Floor>>
    BY <1>2, StepRefines DEF ABStep
  <2> QED
    BY <2>1, InitRefines, Invariance, SerialInvariance, PTL
    DEF Spec, ImplementsABUpdate, AB!Spec
<1> QED
  BY <1>1, <1>2
=============================================================================
