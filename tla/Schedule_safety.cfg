SPECIFICATION FairSpec
CONSTANTS
  Thread <- People
  Main = "main"
  Schedules <- SoundDocs
  Registered <- Words
  Nobody = "nobody"
  NoWait = NoWait
  MaxStarts = 1
  MaxSpurious = 1
CHECK_DEADLOCK FALSE
INVARIANTS TypeOK StartBarrier InOrder IdleMeansEnded IInv
PROPERTIES Implements ScheduleEnds
