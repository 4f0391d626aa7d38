SPECIFICATION Spec
CONSTANTS
  MaxSessionId = 4
  SessionCapacity = 3
  g1 = g1  g2 = g2  c1 = c1  c2 = c2  t1 = t1
  Groups = {g1, g2}
  NoGroup = nogroup
  RowCapacity = 1
  FenceCapacity = 3
  LeaseHolders <- ProductLeases
  Sessions = {c1, c2}
  Callers = {}
  PendingCapacity = 3
  CascadeCapacity = 3
  Workload = {"open", "close", "hello", "allocate", "join", "report", "identify", "slice"}
SYMMETRY ConnectionSymmetry
INVARIANTS OneCustodian FramesSuffice
PROPERTIES DerivedRetireFirst ImplementsCustody
