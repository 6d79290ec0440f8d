\* A child and the daemon it uses.
CONSTANTS
  Procs = {p1}
  Daemons = {d1}
  Killed = {}
  Links = {l1}
  Here = Here
  Elsewhere = Elsewhere
  None = None
  Other = Other
SPECIFICATION FairSpec
PROPERTIES
  ReturnsToForeground
