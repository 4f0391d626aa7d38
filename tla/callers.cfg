SPECIFICATION Spec
CONSTANTS
  MaxSessionId = 2
  SessionCapacity = 2
  g1 = g1  g2 = g2  c1 = c1  c2 = c2  t1 = t1
  Groups = {g1, g2}
  NoGroup = nogroup
  RowCapacity = 2
  FenceCapacity = 2
  LeaseHolders <- OneCallerLeases
  Sessions = {c1}
  Callers = {t1}
  PendingCapacity = 2
  CascadeCapacity = 3
  Workload = {"open", "hello", "allocate", "slice", "claim", "lease", "report", "alias", "held", "reset"}
SYMMETRY GroupSymmetry
INVARIANTS TypeOK OneCustodian PinsProtectRows RowsNamedApart
