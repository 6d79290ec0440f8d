\* The manual daemon: overlapping commands for two profiles, each with its own port,
\* that are edited; crashes.
CONSTANTS
  A = A
  B = B
  q1 = q1
  q2 = q2
  Daemons = {d1, d2}
  Cmds = {c1, c2}
  Ops <- ManualOps
  Profiles = {A, B}
  Programs = {x}
  Ports = {q1, q2}
  Versions = {v1, v2}
  PortOf <- TwoPorts
  None = None
  Other = Other
  Calm = TRUE
  Crashes = TRUE
  Overlap = TRUE
SPECIFICATION Spec
SYMMETRY Symmetries
INVARIANTS
  TypeOK
  OneDaemon
  ListenerRecorded
  ManualInv
PROPERTIES
  StopFreesPorts
  RestartReplaces
  KeepsPromise
