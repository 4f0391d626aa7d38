SPECIFICATION FairSpec
CONSTANTS
  t1 = t1
  t2 = t2
  Threads <- GameThreads
  MaxInstalls = 2
PROPERTIES CallsReturn
INVARIANTS TypeOK NoCallWhenRemoved TrampolineLive WorkHasTargets
