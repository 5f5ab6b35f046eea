------------------------------ MODULE ABUpdate ------------------------------
(***************************************************************************)
(* What a device with two slots promises: it runs one slot and never writes *)
(* to that one; it writes the other only after erasing it, with a version   *)
(* that is not below the rollback floor; and the floor moves up, to the     *)
(* version that runs.  When calls fail, power is cut or a version is marked *)
(* good by hand (Disturbed), the floor may also move up to a version that    *)
(* does not run, and may be lost while the device is down; a floor that     *)
(* cannot be read is above every version.  SuderraOta is shown to implement *)
(* this while commands do not overlap.                                     *)
(***************************************************************************)
EXTENDS Naturals

CONSTANTS
  Slots,
  Versions,
  Lost,        \* the floor when it cannot be read
  Disturbed

VARIABLES
  image,       \* version in each slot; 0 is an empty or half-written slot
  running,     \* the slot that runs, or "none"
  floor        \* the rollback floor

Up == running # "none"

Init ==
  /\ \E s \in Slots, v \in Versions :
       image = [t \in Slots |-> IF t = s THEN v ELSE 0]
  /\ running = "none"
  /\ floor \in Versions

Boot(s) ==
  /\ ~Up
  /\ image[s] # 0
  /\ running' = s
  /\ UNCHANGED <<image, floor>>

Stop ==
  /\ running' = "none"
  /\ UNCHANGED <<image, floor>>

Erase(s) ==
  /\ Up /\ s # running
  /\ image' = [image EXCEPT ![s] = 0]
  /\ UNCHANGED <<running, floor>>

Write(s, v) ==
  /\ Up /\ s # running
  /\ image[s] = 0
  /\ v >= floor
  /\ image' = [image EXCEPT ![s] = v]
  /\ UNCHANGED <<running, floor>>

Commit(v) ==
  /\ Up
  /\ v >= floor
  /\ v = image[running] \/ Disturbed
  /\ floor' = v
  /\ UNCHANGED <<image, running>>

LoseFloor ==
  /\ Disturbed
  /\ running' = "none"
  /\ floor' \in Versions \cup {Lost}
  /\ UNCHANGED image

Next ==
  \/ \E s \in Slots : Boot(s) \/ Erase(s) \/ \E v \in Versions : Write(s, v)
  \/ \E v \in Versions : Commit(v)
  \/ Stop \/ LoseFloor

Spec == Init /\ [][Next]_<<image, running, floor>>
=============================================================================
