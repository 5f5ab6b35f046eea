---------------------------- MODULE BootChooser ----------------------------
(***************************************************************************)
(* The two A/B boot choosers and the part of the bootloader environment    *)
(* that RAUC shares with them.                                             *)
(*                                                                         *)
(*   "grub"   board/suderra/x86_64/grub.cfg        ORDER, <s>_OK, <s>_TRY   *)
(*   "uboot"  board/suderra/aarch64-rpi4/boot.scr.cmd                       *)
(*                                          BOOT_ORDER, BOOT_<s>_LEFT       *)
(*                                                                         *)
(* With two slots an order is determined by its head, so ORDER and          *)
(* BOOT_ORDER are one field, `primary`.  A device has one backend; the      *)
(* fields of the other one never change.                                   *)
(*                                                                         *)
(* RAUC is not part of the repository.  What it writes is modelled from the *)
(* variables the two scripts read: activating a slot puts it at the head of *)
(* the order, marking it good makes it bootable, marking it bad makes it    *)
(* unbootable.  Which <s>_OK and <s>_TRY an activation leaves in the GRUB   *)
(* environment is a parameter, GrubActivate.                                *)
(***************************************************************************)
EXTENDS Naturals

CONSTANTS
  Backend,        \* "grub" or "uboot"
  GrubActivate,   \* the pairs <<OK, TRY>> an activation may leave (GRUB)
  MaxTries        \* BOOT_<s>_LEFT of a slot that is activated or good

ASSUME BackendAssumption == Backend \in {"grub", "uboot"}
ASSUME GrubActivateAssumption == GrubActivate \subseteq (0..1) \X (0..1)
ASSUME MaxTriesAssumption == MaxTries \in Nat \ {0}

Slots == {"A", "B"}
Other(s) == IF s = "A" THEN "B" ELSE "A"

EnvType == [primary : Slots,
            ok      : [Slots -> 0..1],
            try     : [Slots -> 0..1],
            left    : [Slots -> 0..MaxTries]]

(* The environment an image is shipped with (GRUB), and the defaults the   *)
(* boot script falls back to when the variables are unset (U-Boot).        *)
FactoryEnv ==
  [primary |-> "A",
   ok      |-> [s \in Slots |-> IF s = "A" THEN 1 ELSE 0],
   try     |-> [s \in Slots |-> 0],
   left    |-> [s \in Slots |-> MaxTries]]

\* Mutants: TRY is not cleared; TRY is counted down.
GrubAttemptKeepsTry(e, s) == e
GrubAttemptCounts(e, s) == [e EXCEPT !.try[s] = @ - 1]

(* boot_suderra_slot: a slot with TRY # 0 gets one attempt, a slot with     *)
(* OK = 1 any number of them.                                              *)
GrubBootable(e, s) == e.try[s] # 0 \/ e.ok[s] = 1
GrubAttempt(e, s)  == [e EXCEPT !.try[s] = 0]

\* Mutant: saveenv is left out.
UbootAttemptUnsaved(e, s) == e

(* boot.scr: a slot is tried while its counter lasts; the decremented       *)
(* counter is saved before the image is loaded.                            *)
UbootBootable(e, s) == e.left[s] > 0
UbootAttempt(e, s)  == [e EXCEPT !.left[s] = @ - 1]

Bootable(e, s) ==
  IF Backend = "grub" THEN GrubBootable(e, s) ELSE UbootBootable(e, s)

(* `for slot in $ORDER`: the first bootable slot of the order is attempted. *)
Picks(e, s) == Bootable(e, s) /\ (s = e.primary \/ ~Bootable(e, e.primary))

(* The environment after the chooser has committed to slot s.              *)
Attempt(e, s) ==
  IF Backend = "grub" THEN GrubAttempt(e, s) ELSE UbootAttempt(e, s)

NoneBootable(e) == \A s \in Slots : ~Bootable(e, s)

----------------------------------------------------------------------------
(* RAUC's bootloader backends (external).                                  *)

RaucMarkGood(e, s) ==
  IF Backend = "grub" THEN [e EXCEPT !.ok[s] = 1, !.try[s] = 0]
                      ELSE [e EXCEPT !.left[s] = MaxTries]

RaucMarkBad(e, s) ==
  IF Backend = "grub" THEN [e EXCEPT !.ok[s] = 0, !.try[s] = 0]
                      ELSE [e EXCEPT !.left[s] = 0]

RaucActivate(e, s) ==
  IF Backend = "grub"
    THEN {[e EXCEPT !.primary = s, !.ok[s] = g[1], !.try[s] = g[2]] :
             g \in GrubActivate}
    ELSE {[e EXCEPT !.primary = s, !.left[s] = MaxTries]}
=============================================================================
