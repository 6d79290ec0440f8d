\* Three processes over two profiles that name the same address, two links.
CONSTANTS
  Procs = {p1, p2, p3}
  Keys = {k1, k2}
  Links = {l1, l2}
  None = None
  Other = Other
SPECIFICATION Spec
SYMMETRY Symmetries
INVARIANTS
  IInv
  NoSiblingInTheWay
  ListenerOnRecord
  StandbyProbesItsLink
PROPERTIES
  RecordWrittenByHolder
  ImplementsPromise
