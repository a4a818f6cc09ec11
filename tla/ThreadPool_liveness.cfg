SPECIFICATION FairSpec
CONSTANTS
  N = 2
  Client = {c1}
  Task = {k1, k2}
  Nobody = Nobody
  Null = Null
  MaxSpurious = 0
CHECK_DEADLOCK FALSE
PROPERTIES CleanTaskFinishes ConstructReturns
