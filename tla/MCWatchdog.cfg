\* One unit of time is five seconds: the defaults of the daemon (timeout 60 s,
\* interval a third of it), WatchdogSec=30s of the documented unit or none, and
\* `systemctl restart` up to the 90 s systemd grants a unit to stop.  A device
\* whose own timeout is 45 s stands for an ioctl that failed.
CONSTANTS
  Interval = 4
  Applied = {9, 12}
  RestartAfter = 2
  RebootAfter = 4
  MayLack = TRUE
  RequireHw = FALSE
  Watches = TRUE
  MaxCheck = 1
  MaxRestart = 18
  WatchdogSecs = {0, 6}
  Faults = TRUE
SPECIFICATION FairSpec
INVARIANTS TypeOK ResetHasACause
PROPERTIES SickUnitIsActedOn
