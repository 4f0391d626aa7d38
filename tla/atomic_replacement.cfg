SPECIFICATION Spec
CONSTANTS
  MaxSessionId = 3
  SessionCapacity = 3
  g1 = g1  g2 = g2  c1 = c1  c2 = c2  t1 = t1
  Groups = {g1}
  NoGroup = nogroup
  RowCapacity = 1
  FenceCapacity = 3
  LeaseHolders <- ProductLeases
  Sessions = {c1}
  Callers = {}
  PendingCapacity = 3
  CascadeCapacity = 4
  Workload = {"open", "hello", "allocate", "report", "slice"}
INVARIANTS RowsMirrorLiveSources
