\* Three processes of one policy, one link: the hand-over.
CONSTANTS
  Procs = {p1, p2, p3}
  Keys = {k1}
  Links = {l1}
  None = None
  Other = Other
SPECIFICATION FairSpec
PROPERTIES
  TakeOver
  StopsOnSignal
