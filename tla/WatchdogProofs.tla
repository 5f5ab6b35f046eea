--------------------------- MODULE WatchdogProofs ---------------------------
(***************************************************************************)
(* Why suderra-watchdog resets a machine: a theorem for every interval,     *)
(* timeout, threshold and length of a systemctl call.                       *)
(***************************************************************************)
EXTENDS Watchdog, TLAPS

(* What is left on the hardware timer, by phase: at least the timeout minus *)
(* the interval in use and the time the calls of the current tick have      *)
(* taken.  Nothing is carried over from earlier ticks.                      *)
Slack ==
  (hw = "armed" /\ ~lost /\ ~reset) =>
    /\ phase = "wait" => timer + Interval >= limit + due
    /\ phase \in Calls => timer + Interval + spent >= limit

(* The device and the failure count, by phase.                              *)
Device ==
  /\ hw = "armed" => limit \in Applied
  /\ (hw = "armed" /\ ~reset) => timer >= 1
  /\ phase = "gaveup" => fails = RebootAfter
  /\ phase = "reboot" => fails = RebootAfter /\ hw # "armed"
  /\ (phase = "stopped" /\ ~lost) => hw # "armed"

(* A call that is awaited has not run over.                                 *)
Bounds ==
  /\ phase = "check" => elapsed <= MaxCheck /\ spent = elapsed
  /\ phase \in {"restart", "reboot"} => /\ elapsed <= MaxRestart
                                        /\ spent <= MaxCheck + elapsed

(* TypeOK without its Boolean variables, and those.                         *)
Numeric ==
  /\ phase \in Starting \cup Live \cup Ended
  /\ hw \in {"closed", "armed", "disarmed"}
  /\ limit \in Applied \cup {0}
  /\ timer \in Nat /\ timer <= limit
  /\ keep \in WatchdogSecs
  /\ soft \in 0..keep
  /\ due \in 0..Interval
  /\ elapsed \in 0..(MaxCheck + MaxRestart)
  /\ spent \in 0..(MaxCheck + MaxRestart)
  /\ fails \in 0..RebootAfter
Flags ==
  /\ active \in BOOLEAN /\ term \in BOOLEAN /\ lost \in BOOLEAN
  /\ reset \in BOOLEAN

Main == Numeric /\ Slack /\ Device /\ Bounds /\ ResetHasACause

USE DEF Calls, Ended, Starting, Live

(* The constants are natural numbers.                                      *)
LEMMA Numbers ==
  /\ Interval \in Nat /\ Interval >= 1
  /\ MaxCheck \in Nat /\ MaxRestart \in Nat
  /\ RestartAfter \in Nat /\ RebootAfter \in Nat
  /\ RestartAfter >= 1 /\ RebootAfter > RestartAfter
  /\ \A a \in Applied : a \in Nat /\ a >= 1
  /\ \A w \in WatchdogSecs : w \in Nat
BY IntervalAssumption, AppliedAssumption, ThresholdAssumption, CallAssumption,
   UnitAssumption

(* Every step leaves the Boolean variables Boolean.                         *)
LEMMA FlagsKept ==
  ASSUME Flags, Next
  PROVE  Flags'
<1>1. CASE Daemon
  BY <1>1, Zenon DEF Flags, Daemon, DaemonStep, Open, NoDevice, Ready, Tick,
            UnitIsActive, UnitIsSick, Restarted, RebootAsked, Feed, Terminate,
            flags
<1>2. CASE Signal \/ Crash \/ Abort \/ UnitChanges \/ Boot \/ Respawn
             \/ StartByHand
  BY <1>2, Zenon DEF Flags, Signal, Crash, Abort, UnitChanges, Boot, Respawn,
            StartByHand, Started, flags
<1>3. CASE Second
  <2>1. reset' \in BOOLEAN
    BY <1>3, Zenon DEF Second, Flags
  <2> QED
    BY <1>3, <2>1, Zenon DEF Second, Flags
<1> QED
  BY <1>1, <1>2, <1>3 DEF Next

(* The daemon's own steps keep the invariant.                              *)
LEMMA DaemonKeeps ==
  ASSUME Main, Daemon
  PROVE  Main'
<1> USE DEF Main, Numeric, Slack, Device, Bounds, ResetHasACause, InCalls, clocks, flags
<1>n. ~reset
  BY DEF Daemon
<1>1. CASE Open
  BY <1>1, <1>n, Numbers DEF Open
<1>2. CASE NoDevice
  BY <1>2, <1>n, Numbers DEF NoDevice
<1>3. CASE Ready
  BY <1>3, <1>n, Numbers DEF Ready
<1>4. CASE Tick
  BY <1>4, <1>n, Numbers DEF Tick
<1>5. CASE UnitIsActive
  BY <1>5, <1>n, Numbers DEF UnitIsActive
<1>6. CASE UnitIsSick
  BY <1>6, <1>n, Numbers DEF UnitIsSick
<1>7. CASE Restarted
  BY <1>7, <1>n, Numbers DEF Restarted
<1>8. CASE RebootAsked
  BY <1>8, <1>n, Numbers DEF RebootAsked
<1>9. CASE Feed
  BY <1>9, <1>n, Numbers DEF Feed
<1>10. CASE Terminate
  BY <1>10, <1>n, Numbers DEF Terminate
<1> QED
  BY <1>1, <1>2, <1>3, <1>4, <1>5, <1>6, <1>7, <1>8, <1>9, <1>10
  DEF Daemon, DaemonStep

(* So does the passing of time: an idle daemon is woken before the timer    *)
(* runs out, and in a call the timer runs out no sooner than the calls of   *)
(* this tick have used what the interval left.                              *)
LEMMA SecondKeeps ==
  ASSUME Main, Second
  PROVE  Main'
<1> USE DEF Main, Numeric, Slack, Device, Bounds, ResetHasACause, InCalls
<1>0. ~reset /\ MayWait /\ limit \in Nat /\ timer \in Nat
  BY Numbers DEF Second
<1>1. Numeric' /\ Bounds'
  <2>1. /\ elapsed' \in 0..(MaxCheck + MaxRestart)
        /\ spent' \in 0..(MaxCheck + MaxRestart)
        /\ Bounds'
    BY <1>0, Numbers DEF Second, MayWait
  <2>2. timer' \in Nat /\ timer' <= limit
    BY <1>0, Numbers DEF Second
  <2>3. due' \in 0..Interval /\ soft' \in 0..keep
    BY Numbers DEF Second
  <2> QED
    BY <2>1, <2>2, <2>3 DEF Second
<1>2. CASE hw # "armed"
  BY <1>0, <1>1, <1>2, Numbers DEF Second, MayWait
<1>3. CASE hw = "armed"
  <2>1. /\ timer' = timer - 1 /\ (reset' <=> timer = 1) /\ timer >= 1
        /\ UNCHANGED <<phase, hw, limit, fails, lost>>
    BY <1>0, <1>3 DEF Second
  <2>2. Device'
    BY <1>3, <2>1, Numbers
  <2>3. CASE phase = "wait"
    <3>1. due > 0 /\ due' = due - 1
      BY <1>0, <2>3 DEF Second, MayWait
    <3>2. lost \/ timer >= 2 \/ Interval >= limit
      BY <1>0, <1>3, <2>3, <3>1, Numbers
    <3> QED
      BY <1>0, <1>1, <1>3, <2>1, <2>2, <2>3, <3>1, <3>2, Numbers
  <2>4. CASE phase \in Calls
    <3>1. spent' = spent + 1
      BY <2>4 DEF Second
    <3>2. ~lost => timer' + Interval + spent' >= limit
      BY <1>0, <1>3, <2>1, <2>4, <3>1, Numbers
    <3>3. Slack'
      BY <1>3, <2>1, <2>4, <3>2
    <3>4. ResetHasACause'
      <4>1. lost \/ ~reset' \/ Interval + spent' >= limit
        BY <1>0, <2>1, <3>1, <3>2, Numbers
      <4> QED
        BY <2>1, <2>4, <4>1
    <3> QED
      BY <1>1, <2>2, <3>3, <3>4
  <2>5. CASE phase \in Ended
    BY <1>0, <1>1, <1>3, <2>1, <2>2, <2>5
  <2> QED
    BY <1>0, <2>3, <2>4, <2>5 DEF MayWait
<1> QED
  BY <1>2, <1>3

(* So do the environment's other steps.                                    *)
LEMMA EnvironmentKeeps ==
  ASSUME Main,
         Signal \/ Crash \/ Abort \/ UnitChanges \/ Boot \/ Respawn
           \/ StartByHand
  PROVE  Main'
<1> USE DEF Main, Numeric, Slack, Device, Bounds, ResetHasACause, InCalls, clocks, flags
<1>1. CASE Signal \/ Crash \/ Abort \/ UnitChanges
  BY <1>1 DEF Signal, Crash, Abort, Overdue, UnitChanges
<1>2. CASE Boot
  BY <1>2, Numbers DEF Boot
<1>3. CASE Respawn \/ StartByHand
  BY <1>3, Numbers DEF Respawn, StartByHand, Started
<1> QED
  BY <1>1, <1>2, <1>3

(* Main is the inductive invariant.                                        *)
THEOREM WatchdogInvariance == Spec => [](Main /\ Flags)
<1>1. Init => Main /\ Flags
  <2> SUFFICES ASSUME Init PROVE Main /\ Flags
    OBVIOUS
  <2>1. Flags
    BY Zenon DEF Init, Flags
  <2>2. Main
    BY Numbers DEF Init, Main, Numeric, Slack, Device, Bounds, ResetHasACause, InCalls
  <2> QED
    BY <2>1, <2>2
<1>2. Main /\ Flags /\ [Next]_vars => (Main /\ Flags)'
  <2> SUFFICES ASSUME Main, Flags, [Next]_vars PROVE Main' /\ Flags'
    OBVIOUS
  <2>1. CASE UNCHANGED vars
    BY <2>1 DEF vars, clocks, flags, Main, Numeric, Slack, Device, Bounds,
                ResetHasACause, InCalls, Flags
  <2>2. CASE Next
    BY <2>2, DaemonKeeps, SecondKeeps, EnvironmentKeeps, FlagsKept DEF Next
  <2> QED
    BY <2>1, <2>2
<1> QED
  BY <1>1, <1>2, PTL DEF Spec

(* However long a systemctl call takes and however the daemon ends, the     *)
(* machine is reset only after the daemon gave up or was killed, after a    *)
(* write to the device failed, on a reboot that was asked for, or because   *)
(* an interval and the calls of one tick together took the timeout.         *)
THEOREM ResetsHaveACause == Spec => []ResetHasACause
<1>1. Main => ResetHasACause
  BY DEF Main
<1> QED
  BY <1>1, WatchdogInvariance, PTL

(* The counters stay in their bounds however slow the calls are: no timer   *)
(* runs below zero and none of the daemon's counts passes its threshold.    *)
THEOREM WatchdogTypes == Spec => []TypeOK
<1>1. Main /\ Flags => TypeOK
  BY DEF Main, Numeric, Flags, TypeOK
<1> QED
  BY <1>1, WatchdogInvariance, PTL
=============================================================================
