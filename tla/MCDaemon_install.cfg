\* The manual daemon is started, then the LaunchAgent is installed.
CONSTANTS
  A = A
  B = B
  q1 = q1
  q2 = q2
  Daemons = {d1, d2}
  Cmds = {c1, c2}
  Ops = {"start", "install"}
  Profiles = {A}
  Programs = {x}
  Ports = {q1}
  Versions = {v1}
  PortOf <- OnePort
  None = None
  Other = Other
  Calm = TRUE
  Crashes = FALSE
  Overlap = FALSE
SPECIFICATION Spec
\* Every command may be over and the daemon serving: nothing more has to happen.
CHECK_DEADLOCK FALSE
INVARIANTS
  InstallRegisters
