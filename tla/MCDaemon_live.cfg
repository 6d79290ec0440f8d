\* Every command, overlapping and interrupted, with deadlines that may expire.
CONSTANTS
  A = A
  B = B
  q1 = q1
  q2 = q2
  Daemons = {d1}
  Cmds = {c1, c2}
  Ops <- AllOps
  Profiles = {A}
  Programs = {x}
  Ports = {q1}
  Versions = {v1}
  PortOf <- OnePort
  None = None
  Other = Other
  Calm = FALSE
  Crashes = FALSE
  Overlap = TRUE
SPECIFICATION FairSpec
\* Every command may be over and the daemon serving: nothing more has to happen.
CHECK_DEADLOCK FALSE
PROPERTIES
  CommandsFinish
  SignalledDaemonEnds
