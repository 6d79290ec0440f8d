\* Two children of one policy and a daemon; liveness, so no symmetry.
CONSTANTS
  Procs = {p1, p2}
  Daemons = {d0, d1}
  Killed = {d0}
  Links = {l1, l2}
  Here = Here
  Elsewhere = Elsewhere
  None = None
  Other = Other
SPECIFICATION FairSpec
INVARIANTS
  ReusesItsLink
  IInv
PROPERTIES
  EndsOnSignal
  Decides
