\* One edit that nothing overlaps and two that may overlap each other and the
\* user, in any order; other programs on a port.
CONSTANTS
  K = K
  L = L
  Foreign = Foreign
  Odd = Odd
  Malformed = Malformed
  Links = {K, L, Foreign, Odd}
  Node <- TheNodes
  single = single
  c2 = c2
  c3 = c3
  Cmds = {single, c2, c3}
  Overlapping = {c2, c3}
  Requests <- SomeRequests
  Starts <- SomeStarts
  UserLines <- SomeUserLines
  MaxPort = 5
  Contested = {2}
  None = None
SPECIFICATION Spec
SYMMETRY Symmetries
INVARIANTS
  EditInv
  WellFormed
  EditsServe
  SameService
PROPERTIES
  ManualKept
  TargetsSurvive
  PortsFresh
  BackupIsPrevious
  FirstEditConfirmed
