SPECIFICATION FairSpec
CONSTANTS
  Thread = {t1, t2}
  Value = {v1, v2}
  Length = 3
  Null = Null
  Nothing = Nothing
  Nobody = Nobody
INVARIANTS TypeOK RoundTrip IInv
PROPERTIES Implements LoopEnds
