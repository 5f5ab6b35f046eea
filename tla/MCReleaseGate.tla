----------------------------- MODULE MCReleaseGate -----------------------------
(***************************************************************************)
(* Values for TLC.  The device row carries the policies of several rows of *)
(* the build matrix, so that every validator is reached with two rows.     *)
(***************************************************************************)
EXTENDS ReleaseGate, TLC

MCTargets == {"qemu", "device"}
MCPolicy ==
    ("qemu" :> {"release", "public", "qemu", "signing"}) @@
    ("device" :> {"release", "public", "lab", "hardware", "gate", "signing", "ota", "runtime",
                  "scan", "x86"})
MCAdapterOrder == <<"storage", "readback">>

\* The instance is one the theorems on good evidence are about.
ASSUME MCMatrix == NoWildcard /\ ProductionMatrix
===============================================================================
