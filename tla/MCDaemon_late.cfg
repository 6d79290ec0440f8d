\* A start gives up on a slow child; a second start and a stop follow.
CONSTANTS
  A = A
  B = B
  q1 = q1
  q2 = q2
  Daemons = {d1, d2}
  Cmds = {c1, c2, c3}
  Ops = {"start", "stop"}
  Profiles = {A}
  Programs = {x}
  Ports = {q1}
  Versions = {v1}
  PortOf <- OnePort
  None = None
  Other = Other
  Calm = FALSE
  Crashes = FALSE
  Overlap = FALSE
SPECIFICATION Spec
\* Every command may be over and the daemon serving: nothing more has to happen.
CHECK_DEADLOCK FALSE
PROPERTIES
  StopSeesWhoServes
