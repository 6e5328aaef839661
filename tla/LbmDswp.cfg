\* wait() may return without a notify, as the C++ standard allows.  The queue
\* may then be popped past its last packet; MaxOverrun bounds how often.  The
\* program really may stop: produce_end() does not wake a worker asleep in
\* consume().
CONSTANTS
  Datum <- MCDatum
  Default <- T0
  Items <- MCItems
  Garbage <- MCGarbage
  SpuriousWakeups = TRUE
  MaxOverrun = 2
  Cells <- MCCells
  Obstacle <- MCObstacle
  Dirs <- MCDirs
  Offset <- MCOffset
  Opposite <- MCOpposite
  Moments <- MCMoments
  Collide <- MCCollide
  InOutFlow <- MCInOutFlow
  Initial <- MCInitial
  Steps = 2
  MainDirs = {"C", "E"}
SPECIFICATION FairSpec
INVARIANTS
  WorksInOrder
  CleanRunIsComplete
  HangsOnlyAtTheEnd
  QueueOutlivesWorker
  OneWriterPerSlot
PROPERTIES
  CleanStepsAreSequential
  CleanStepsEnd
CHECK_DEADLOCK FALSE
