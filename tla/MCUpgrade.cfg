\* Two commands and an upgrade that may be interrupted, one at a time, with crashes
\* and respawns.
CONSTANTS
  A = A
  B = B
  q1 = q1
  c1 = c1
  c2 = c2
  Inner = u
  Daemons = {d1, d2}
  Cmds = {c1, c2, u}
  Ops <- UserOps
  Profiles = {A, B}
  Programs = {here, there}
  TargetPath = here
  Ports = {q1}
  Versions = {v1}
  PortOf <- OnePort
  None = None
  Other = Other
  Calm = TRUE
  Crashes = TRUE
  Overlap = FALSE
SPECIFICATION USpec
SYMMETRY Symmetries
ACTION_CONSTRAINTS
  LateOther
  LateFailure
  UserPaths
\* Every command may be over and the daemon serving: nothing more has to happen.
CHECK_DEADLOCK FALSE
INVARIANTS
  UTypeOK
  UpgradeInv
  LoadedHasPlist
PROPERTIES
  StopUnloads
  InstallTakesEffect
  NoOldDaemon
  DaemonIsBack
