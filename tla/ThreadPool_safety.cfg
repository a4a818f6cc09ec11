SPECIFICATION Spec
CONSTANTS
  N = 2
  Client = {c1, c2}
  Task = {k1, k2}
  Nobody = Nobody
  Null = Null
  MaxSpurious = 1
CHECK_DEADLOCK FALSE
INVARIANTS TypeOK NoNullCall ConstructBarrier CleanTaskRunsOnce
           WaitIdleCoversClean IInv OneClientClaims
SYMMETRY Symmetry
