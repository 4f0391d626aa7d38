SPECIFICATION FairSpec
CONSTANTS
  MaxSessionId = 3
  SessionCapacity = 2
  g1 = g1  g2 = g2  c1 = c1  c2 = c2  t1 = t1
  Groups = {g1}
  NoGroup = nogroup
  RowCapacity = 1
  FenceCapacity = 2
  LeaseHolders <- OneCallerLeases
  Sessions = {c1}
  Callers = {t1}
  PendingCapacity = 2
  CascadeCapacity = 3
  Workload = {"open", "close", "hello", "allocate", "poll", "slice", "claim", "lease", "shutdown"}
INVARIANTS NoStrandedFence CapacitiesSuffice
PROPERTIES BlockedRootsRetire ClaimedRowsSettle
