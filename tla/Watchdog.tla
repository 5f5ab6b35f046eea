------------------------------ MODULE Watchdog ------------------------------
(***************************************************************************)
(* suderra-watchdog (userspace/suderra-watchdog/src/main.rs): the daemon    *)
(* that feeds /dev/watchdog, watches one systemd unit, restarts it after    *)
(* RestartAfter consecutive failures and stops feeding after RebootAfter.   *)
(*                                                                         *)
(* Time is discrete.  The daemon's own computation takes no time; the two   *)
(* systemctl calls it awaits do, and nothing is fed while they run: the     *)
(* body of the select! branch is one sequential task.                       *)
(***************************************************************************)
EXTENDS Naturals

CONSTANTS
  Interval,      \* SUDERRA_WATCHDOG_INTERVAL_SECS
  Applied,       \* the hardware timeouts that may be in force after opening
  RestartAfter,  \* SUDERRA_WATCHDOG_RESTART_AFTER
  RebootAfter,   \* SUDERRA_WATCHDOG_REBOOT_AFTER
  MayLack,       \* may /dev/watchdog be missing?
  RequireHw,     \* SUDERRA_WATCHDOG_REQUIRE_HW=1
  Watches,       \* SUDERRA_WATCHDOG_HEALTH_UNIT names a unit
  MaxCheck,      \* longest `systemctl is-active`
  MaxRestart,    \* longest `systemctl restart` or `systemctl reboot`
  WatchdogSecs,  \* what WatchdogSec= of the unit may be, 0 for not set
  Faults         \* may writing to the device fail, may a program not start,
                 \* may the daemon be killed?

ASSUME IntervalAssumption == Interval \in Nat \ {0}
ASSUME AppliedAssumption == Applied \subseteq Nat \ {0}
ASSUME ThresholdAssumption ==
  /\ RestartAfter \in Nat \ {0}
  /\ RebootAfter \in Nat
  /\ RebootAfter >= RestartAfter + 1
ASSUME CallAssumption == MaxCheck \in Nat /\ MaxRestart \in Nat
ASSUME UnitAssumption == WatchdogSecs \subseteq Nat
ASSUME FlagAssumption ==
  {MayLack, RequireHw, Watches, Faults} \subseteq BOOLEAN

VARIABLES
  phase,    \* where the daemon is
  hw,       \* the device: "closed", "armed", or "disarmed" by magic close
  limit,    \* the hardware timeout in force
  timer,    \* time left before the hardware resets the machine
  keep,     \* WatchdogSec= of the unit
  soft,     \* time left before systemd kills the daemon
  due,      \* time left before the ticker fires
  elapsed,  \* time the current systemctl call has taken
  spent,    \* time the calls of the current tick have taken
  fails,    \* consecutive_fail; it saturates at RebootAfter
  active,   \* the watched unit is active
  term,     \* SIGTERM or SIGINT has been sent
  lost,     \* history: the last write to the device failed
  reset     \* the machine has been reset

clocks == <<limit, timer, keep, soft, due, elapsed, spent>>
flags == <<active, term, lost, reset>>
vars == <<phase, hw, clocks, fails, flags>>

Calls == {"check", "restart", "reboot"}
Ended == {"stopped", "gaveup", "crashed"}
Starting == {"start", "opened"}
Live == Calls \cup {"wait", "feed"}

TypeOK ==
  /\ phase \in Starting \cup Live \cup Ended
  /\ hw \in {"closed", "armed", "disarmed"}
  /\ limit \in Applied \cup {0}
  /\ timer \in Nat /\ timer <= limit
  /\ keep \in WatchdogSecs
  /\ soft \in 0..keep
  /\ due \in 0..Interval
  /\ elapsed \in 0..(MaxCheck + MaxRestart)
  /\ spent \in 0..(MaxCheck + MaxRestart)
  /\ fails \in 0..RebootAfter
  /\ active \in BOOLEAN /\ term \in BOOLEAN /\ lost \in BOOLEAN
  /\ reset \in BOOLEAN

Init ==
  /\ phase = "start"
  /\ hw = "closed"
  /\ limit = 0 /\ timer = 0
  /\ keep \in WatchdogSecs /\ soft = 0
  /\ due = 0 /\ elapsed = 0 /\ spent = 0
  /\ fails = 0
  /\ active \in BOOLEAN
  /\ term = FALSE /\ lost = FALSE /\ reset = FALSE

----------------------------------------------------------------------------
(* Open the device, which arms it, and set its timeout.  When the ioctl     *)
(* fails the device keeps its own timeout and Interval is not adapted.      *)
Open ==
  /\ phase = "start"
  /\ phase' = "opened"
  /\ hw' = "armed"
  /\ limit' \in Applied
  /\ timer' = limit'
  /\ UNCHANGED <<keep, soft, due, elapsed, spent, fails, flags>>

(* No device: fail closed with REQUIRE_HW, go on without it otherwise.  A   *)
(* device that was there stays there until the next boot.                   *)
NoDevice ==
  /\ phase = "start" /\ MayLack /\ hw = "closed"
  /\ phase' = IF RequireHw THEN "crashed" ELSE "opened"
  /\ UNCHANGED <<hw, clocks, fails, flags>>

(* The first kick, READY=1, which starts systemd's own timer, and the       *)
(* signal handlers.  A kick that fails ends the daemon.                     *)
Ready ==
  /\ phase = "opened"
  /\ \/ /\ phase' = "wait" /\ timer' = limit /\ soft' = keep
        /\ lost' = FALSE
     \/ /\ Faults /\ hw = "armed"
        /\ phase' = "crashed" /\ lost' = TRUE /\ UNCHANGED <<timer, soft>>
  /\ UNCHANGED <<hw, limit, keep, due, elapsed, spent, fails, active, term,
                 reset>>

(* The ticker fires; the next deadline is counted from here.                *)
Tick ==
  /\ phase = "wait" /\ due = 0
  /\ due' = Interval
  /\ elapsed' = 0 /\ spent' = 0
  /\ phase' = IF Watches THEN "check" ELSE "feed"
  /\ UNCHANGED <<hw, limit, timer, keep, soft, fails, flags>>

UnitIsActive ==
  /\ phase = "check" /\ active
  /\ fails' = 0
  /\ phase' = "feed"
  /\ UNCHANGED <<hw, clocks, flags>>

(* consecutive_fail += 1: restart the unit at one threshold; from the other *)
(* on drop the device without a magic close and exit, or, without a device, *)
(* ask for a reboot.  A systemctl that cannot be run counts as a failure.   *)
UnitIsSick ==
  LET n == IF fails < RebootAfter THEN fails + 1 ELSE RebootAfter
  IN  /\ phase = "check" /\ (~active \/ Faults)
      /\ fails' = n
      /\ phase' = CASE n = RestartAfter -> "restart"
                    [] n = RebootAfter  -> IF hw = "armed" THEN "gaveup"
                                                           ELSE "reboot"
                    [] OTHER -> "feed"
      /\ elapsed' = 0
      /\ UNCHANGED <<hw, limit, timer, keep, soft, due, spent, flags>>

(* `systemctl restart` returns; the unit may be up again.                   *)
Restarted ==
  /\ phase = "restart"
  /\ active' \in BOOLEAN
  /\ phase' = "feed"
  /\ UNCHANGED <<hw, clocks, fails, term, lost, reset>>

(* `systemctl reboot <unit>` returns: the machine goes down, or it does not.*)
RebootAsked ==
  /\ phase = "reboot"
  /\ reset' \in BOOLEAN
  /\ phase' = "feed"
  /\ UNCHANGED <<hw, clocks, fails, active, term, lost>>

\* Mutant: the device is fed only while the unit is healthy.
FeedHealthy ==
  /\ phase = "feed"
  /\ phase' = "wait"
  /\ soft' = keep
  /\ timer' = IF fails = 0 THEN limit ELSE timer
  /\ UNCHANGED <<hw, limit, keep, due, elapsed, spent, fails, flags>>

(* Kick the device and send WATCHDOG=1 to systemd.  An error is logged and  *)
(* the loop goes on.                                                       *)
Feed ==
  /\ phase = "feed"
  /\ phase' = "wait"
  /\ soft' = keep
  /\ \/ timer' = limit /\ lost' = FALSE
     \/ Faults /\ hw = "armed" /\ lost' = TRUE /\ UNCHANGED timer
  /\ UNCHANGED <<hw, limit, keep, due, elapsed, spent, fails, active, term,
                 reset>>

(* The signal is seen between two ticks: magic close, then exit.            *)
Terminate ==
  /\ phase = "wait" /\ term
  /\ phase' = "stopped"
  /\ \/ /\ hw' = IF hw = "armed" THEN "disarmed" ELSE hw
        /\ UNCHANGED lost
     \/ Faults /\ hw = "armed" /\ lost' = TRUE /\ UNCHANGED hw
  /\ UNCHANGED <<clocks, fails, active, term, reset>>

DaemonStep ==
  \/ Open \/ NoDevice \/ Ready \/ Tick \/ UnitIsActive \/ UnitIsSick
  \/ Restarted \/ RebootAsked \/ Feed \/ Terminate
Daemon == ~reset /\ DaemonStep

----------------------------------------------------------------------------
(* The environment.                                                        *)

(* SIGTERM or SIGINT: remembered once the handlers are installed; before    *)
(* that it kills a daemon that may have armed the device already.           *)
Signal ==
  /\ phase \in Starting \cup Live /\ ~term /\ ~reset
  /\ term' = TRUE
  /\ phase' = IF phase \in Starting THEN "crashed" ELSE phase
  /\ UNCHANGED <<hw, clocks, fails, active, lost, reset>>

Crash ==
  /\ Faults /\ phase \in Starting \cup Live /\ ~reset
  /\ phase' = "crashed"
  /\ UNCHANGED <<hw, clocks, fails, flags>>

(* No WATCHDOG=1 for WatchdogSec=: systemd kills the daemon with SIGABRT.   *)
Overdue == phase \in Live /\ keep > 0 /\ soft = 0
Abort ==
  /\ Overdue /\ ~reset
  /\ phase' = "crashed"
  /\ UNCHANGED <<hw, clocks, fails, flags>>

UnitChanges ==
  /\ Watches /\ phase \in Live /\ ~reset
  /\ active' = ~active
  /\ UNCHANGED <<phase, hw, clocks, fails, term, lost, reset>>

(* A call that has taken as long as it may returns before time goes on, and *)
(* so does systemd before it lets an overdue daemon run on.                 *)
MayWait ==
  \/ phase = "wait" /\ due > 0 /\ ~term /\ ~Overdue
  \/ phase = "check" /\ elapsed < MaxCheck /\ ~Overdue
  \/ phase \in {"restart", "reboot"} /\ elapsed < MaxRestart /\ ~Overdue
  \/ phase \in Ended

\* Mutant: a deadline that has passed is counted on.
SecondNoFloor ==
  /\ MayWait /\ ~reset
  /\ hw = "armed" \/ phase \notin Ended
  /\ due' = due - 1
  /\ soft' = IF soft > 0 THEN soft - 1 ELSE 0
  /\ IF phase \in Calls
       THEN elapsed' = elapsed + 1 /\ spent' = spent + 1
       ELSE UNCHANGED <<elapsed, spent>>
  /\ IF hw = "armed"
       THEN timer' = timer - 1 /\ reset' = (timer = 1)
       ELSE UNCHANGED <<timer, reset>>
  /\ UNCHANGED <<phase, hw, limit, keep, fails, active, term, lost>>

(* One unit of time.  An interval that ends while a call is awaited fires   *)
(* as soon as the call returns (MissedTickBehavior::Delay).                 *)
Second ==
  /\ MayWait /\ ~reset
  /\ hw = "armed" \/ phase \notin Ended
  /\ due' = IF due > 0 THEN due - 1 ELSE 0
  /\ soft' = IF soft > 0 THEN soft - 1 ELSE 0
  /\ IF phase \in Calls
       THEN elapsed' = elapsed + 1 /\ spent' = spent + 1
       ELSE UNCHANGED <<elapsed, spent>>
  /\ IF hw = "armed"
       THEN timer' = timer - 1 /\ reset' = (timer = 1)
       ELSE UNCHANGED <<timer, reset>>
  /\ UNCHANGED <<phase, hw, limit, keep, fails, active, term, lost>>

(* The machine comes up again.                                             *)
Boot ==
  /\ reset
  /\ phase' = "start"
  /\ hw' = "closed"
  /\ limit' = 0 /\ timer' = 0
  /\ soft' = 0 /\ UNCHANGED keep
  /\ due' = 0 /\ elapsed' = 0 /\ spent' = 0
  /\ fails' = 0
  /\ active' \in BOOLEAN
  /\ term' = FALSE /\ lost' = FALSE /\ reset' = FALSE

(* A new process: nothing is remembered, and a device that was left armed   *)
(* is still armed.                                                         *)
Started ==
  /\ phase' = "start"
  /\ soft' = 0 /\ due' = 0 /\ elapsed' = 0 /\ spent' = 0
  /\ fails' = 0
  /\ term' = FALSE
  /\ UNCHANGED <<hw, limit, timer, keep, active, lost, reset>>

\* Mutant: the count outlives the process.
RespawnKeepsCount ==
  /\ phase \in {"gaveup", "crashed"} /\ ~term /\ ~reset
  /\ phase' = "start"
  /\ soft' = 0 /\ due' = 0 /\ elapsed' = 0 /\ spent' = 0
  /\ UNCHANGED <<hw, limit, timer, keep, fails, flags>>

(* Restart=always: systemd starts the daemon again however it has ended,    *)
(* unless systemd was told to stop it.                                     *)
Respawn ==
  /\ phase \in {"gaveup", "crashed"} /\ ~term /\ ~reset
  /\ Started

(* Somebody starts a daemon that was stopped.                              *)
StartByHand ==
  /\ phase \in Ended /\ term /\ ~reset
  /\ Started

Next ==
  \/ Daemon \/ Signal \/ Crash \/ Abort \/ UnitChanges \/ Second \/ Boot
  \/ Respawn \/ StartByHand

Spec == Init /\ [][Next]_vars

(* Time passes, the daemon is scheduled and systemd does its work; nobody   *)
(* has to send a signal, kill the daemon, change the unit, boot the machine *)
(* or start a daemon that was stopped.                                     *)
FairSpec ==
  Spec /\ WF_vars(Daemon) /\ WF_vars(Second) /\ WF_vars(Abort)
       /\ WF_vars(Respawn)

----------------------------------------------------------------------------
(* Properties.                                                             *)

(* The time the current tick has spent in systemctl calls.                  *)
InCalls == IF phase \in Calls THEN spent ELSE 0

(* A machine is reset for one of four reasons only: the daemon has ended    *)
(* without a planned stop and nothing fed the device since (it gave up      *)
(* after RebootAfter failures in a row, or it was killed); the last write   *)
(* to the device failed; there is no device and `systemctl reboot` was      *)
(* asked for after RebootAfter failures; or the interval and the calls of   *)
(* the current tick alone have taken all of the timeout.  The last is the   *)
(* margin a systemctl call really has: lateness does not add up over ticks, *)
(* an idle daemon resets the machine only when its interval is no shorter   *)
(* than the timeout (a device that refused the ioctl), and a planned stop   *)
(* (SIGTERM once the handlers are there) never does.                        *)
ResetHasACause ==
  reset => \/ phase = "crashed"
           \/ phase = "gaveup" /\ fails = RebootAfter
           \/ lost
           \/ phase = "feed" /\ fails = RebootAfter /\ hw # "armed"
           \/ phase \in Live /\ Interval + InCalls >= limit

(* A unit that stays down keeps being acted on: again and again it is       *)
(* restarted, a reboot is asked for, or the machine is reset, unless the    *)
(* daemon is told to stop or keeps being killed.  This is what is left of   *)
(* the staged recovery under Restart=always: the daemon that gives up to    *)
(* have the machine reset is started again, feeds, and begins to count anew.*)
SickUnitIsActedOn ==
  []<>(active \/ term \/ reset \/ phase \in {"restart", "reboot", "crashed"})
=============================================================================

